---- MODULE Spec2Model ----
(***************************************************************************)
(* Model of the Qore tar module: the archive session QoreTarFile (its      *)
(* constructors, close, toData, the query, add and extract operations),    *)
(* the path-safety gate isPathSafe, the libarchive callbacks that bind a   *)
(* session to its backing (file, memory buffer, Qore stream), and the      *)
(* stream objects TarOutputStream and TarInputStream a session hands out.  *)
(*                                                                         *)
(* Strings are sequences of one-character strings.  An archive is a        *)
(* sequence of entries followed, once the write coder has been closed, by  *)
(* the end-of-archive footer; the codec (libarchive) stores and returns    *)
(* the header fields and the payload of an entry unchanged.                *)
(***************************************************************************)
EXTENDS Integers, Sequences, FiniteSets, TLC

VARIABLES
    path,               \* the path given to isPathSafe or to the file constructor
    safe,               \* isPathSafe: "unset", or the value returned
    life,               \* "none" (not constructed), "live", "dead" (destroyed)
    mode,               \* QoreTarFile::mode
    in_memory,          \* QoreTarFile::in_memory
    closed,             \* QoreTarFile::closed
    read_archive,       \* QoreTarFile::read_archive: "null", "new", "open"
    write_archive,      \* QoreTarFile::write_archive: [h, pending]
    compression_method, \* QoreTarFile::compression_method
    format,             \* QoreTarFile::format
    memory_buffer,      \* QoreTarFile::memory_buffer (archive bytes)
    input_stream,       \* QoreTarFile::input_stream: [set, data, pos]
    output_stream,      \* QoreTarFile::output_stream: [set, data]
    file,               \* the archive file at QoreTarFile::filepath
    origin,             \* how the session came to be (which constructor, over what)
    existing_data,      \* openAppend: the archive file as it was when read
    calls,              \* the add* calls that returned without error
    tarOutputStreams,   \* the TarOutputStream objects made by openOutputStream
    tarInputStreams,    \* the TarInputStream objects made by openInputStream
    read_buffer,        \* stream_read_callback: the static thread_local read_buffer
    sessions,           \* the stream-backed read sessions of one thread
    ret                 \* outcome of the last call: [op, arg, errs, val, disk, stream]

vars == << path, safe, life, mode, in_memory, closed, read_archive, write_archive,
           compression_method, format, memory_buffer, input_stream, output_stream,
           file, origin, existing_data, calls, tarOutputStreams, tarInputStreams,
           read_buffer, sessions, ret >>

sessionVars == << life, mode, in_memory, closed, read_archive, write_archive,
                  compression_method, format, memory_buffer, input_stream,
                  output_stream, file, origin, existing_data, calls, tarOutputStreams,
                  tarInputStreams, ret >>

-----------------------------------------------------------------------------
(* Bounds of the model.                                                    *)

MaxPathLen == 5      \* longest generated isPathSafe argument
MaxEntries == 2      \* entries of a pre-existing archive
MaxCalls == 2        \* add* calls on one write session
MaxAppendCalls == 1  \* add* calls on a session that appends to an existing archive
MaxAppendEntries == 1 \* entries of an archive that is opened for append
StreamBlock == 1     \* entries delivered by one stream_read_callback pull
MaxOutputStreams == 1 \* TarOutputStream objects opened on one session
MaxBuffer == 3       \* bytes buffered by one TarOutputStream
MaxInputStreams == 1 \* TarInputStream objects opened on one session
MaxReadFaults == 1   \* reads one read coder fails under a TarInputStream
TAR_BUFFER_SIZE == 2 \* bytes one stream_read_callback asks for (65536 in the source)
MaxStreamLen == 4    \* bytes delivered by the InputStream under a stream session
MaxInterleaved == 2  \* TarOutputStream objects open at once on one session

-----------------------------------------------------------------------------
(* Characters and strings.                                                 *)

NUL == "NUL"                          \* the terminating '\0' of a C string
NULLSTR == << "nullptr" >>            \* a const char* that is nullptr

UpperCase == { "A", "B", "C", "D", "E", "F", "G", "H", "I", "J", "K", "L", "M",
               "N", "O", "P", "Q", "R", "S", "T", "U", "V", "W", "X", "Y", "Z" }
LowerCase == { "a", "b", "c", "d", "e", "f", "g", "h", "i", "j", "k", "l", "m",
               "n", "o", "p", "q", "r", "s", "t", "u", "v", "w", "x", "y", "z" }

\* path[i] of a C string, 0-based; reading the terminator gives NUL
CharAt(s, i) == IF i < Len(s) THEN s[i + 1] ELSE NUL

-----------------------------------------------------------------------------
(* isPathSafe (path traversal gate).                                       *)

\* the while (*p) loop, p = path + i
RECURSIVE ScanDotDot(_, _)
ScanDotDot(s, i) ==
    IF CharAt(s, i) = NUL THEN TRUE
    ELSE IF /\ CharAt(s, i) = "." /\ CharAt(s, i + 1) = "."
            /\ (i = 0 \/ CharAt(s, i - 1) = "/" \/ CharAt(s, i - 1) = "\\")
            /\ (CharAt(s, i + 2) = NUL \/ CharAt(s, i + 2) = "/" \/ CharAt(s, i + 2) = "\\")
         THEN FALSE
         ELSE ScanDotDot(s, i + 1)

\* a plausible slip: only '/' bounds a ".." component
RECURSIVE ScanDotDotSlashOnly(_, _)
ScanDotDotSlashOnly(s, i) ==
    IF CharAt(s, i) = NUL THEN TRUE
    ELSE IF /\ CharAt(s, i) = "." /\ CharAt(s, i + 1) = "."
            /\ (i = 0 \/ CharAt(s, i - 1) = "/")
            /\ (CharAt(s, i + 2) = NUL \/ CharAt(s, i + 2) = "/")
         THEN FALSE
         ELSE ScanDotDotSlashOnly(s, i + 1)

isPathSafeSlashOnly(s) ==
    IF s = NULLSTR \/ s = << >> THEN TRUE
    ELSE IF CharAt(s, 0) = "/" THEN FALSE
    ELSE IF CharAt(s, 0) \in (UpperCase \cup LowerCase) /\ CharAt(s, 1) = ":" THEN FALSE
    ELSE ScanDotDotSlashOnly(s, 0)

isPathSafe(s) ==
    IF s = NULLSTR \/ s = << >> THEN TRUE
    ELSE IF CharAt(s, 0) = "/" THEN FALSE
    ELSE IF CharAt(s, 0) \in (UpperCase \cup LowerCase) /\ CharAt(s, 1) = ":" THEN FALSE
    ELSE ScanDotDot(s, 0)

-----------------------------------------------------------------------------
(* The values the model draws its inputs from.                             *)

PathChars == { "/", "\\", ".", ":", "a", "1" }

\* the paths named by the specification's examples
EtcPasswd == << "/", "e", "t", "c", "/", "p", "a", "s", "s", "w", "d" >>
UpUpX == << ".", ".", "/", ".", ".", "/", "x" >>
AUpUpB == << "a", "/", ".", ".", "/", ".", ".", "/", "b" >>
ABC == << "a", "/", "b", "/", "c" >>
DriveX == << "C", ":", "\\", "x" >>
ADotDotB == << "a", ".", ".", "b" >>
ASlashDotDotB == << "a", "/", ".", ".", "b" >>

NamedPaths == { EtcPasswd, UpUpX, AUpUpB, ABC, DriveX, ADotDotB, ASlashDotDotB }

Paths == (UNION { [1..n -> PathChars] : n \in 0..MaxPathLen }) \cup NamedPaths

\* payloads
Hello == << "h", "e", "l", "l", "o" >>
OneByte == << "x" >>
NoBytes == << >>

\* entry names and link targets used by the session model
N_a == << "a" >>
N_b == << "b" >>
N_atxt == << "a", ".", "t", "x", "t" >>
N_evil == << ".", ".", "/", "e", "v", "i", "l" >>
N_abs == << "/", "t" >>
N_dir == << "d", "/" >>
N_d == << "d" >>
N_none == << "z" >>
N_long == [ k \in 1..256 |-> "n" ]     \* longer than a ustar header can hold

\* archive_entry filetypes (0 = no filetype set)
AE_IFREG == "AE_IFREG"
AE_IFDIR == "AE_IFDIR"
AE_IFLNK == "AE_IFLNK"
AE_IFCHR == "AE_IFCHR"
AE_IFBLK == "AE_IFBLK"
AE_IFIFO == "AE_IFIFO"
AE_IFSOCK == "AE_IFSOCK"
AE_NONE == "AE_NONE"

\* struct archive_entry, the fields the module reads or sets; the permission
\* bits and the modification time are those of an entry made long ago with
\* mode 0644 until Stamp sets them
Entry(pathname, filetype, data, hardlink, symlink) ==
    [ pathname |-> pathname, filetype |-> filetype, data |-> data, hardlink |-> hardlink,
      symlink |-> symlink, size |-> Len(data), perm |-> 420, mtime |-> 1 ]

\* archive_entry_set_perm, archive_entry_set_mtime
Stamp(e, perm, mtime) == [ e EXCEPT !.perm = perm, !.mtime = mtime ]

\* time(nullptr), in seconds since the epoch
time_now == 1000

\* the entries a pre-existing archive (file, blob or stream) is made of
SrcEntries ==
    { Entry(N_a, AE_IFREG, Hello, NULLSTR, NULLSTR),
      Entry(N_a, AE_IFREG, NoBytes, NULLSTR, NULLSTR),
      Entry(N_evil, AE_IFREG, OneByte, NULLSTR, NULLSTR),
      Entry(N_b, AE_IFREG, NoBytes, N_a, NULLSTR),
      Entry(N_b, AE_NONE, NoBytes, N_abs, NULLSTR),
      Entry(N_b, AE_IFLNK, NoBytes, NULLSTR, N_a),
      Entry(N_b, AE_IFLNK, NoBytes, NULLSTR, N_evil) }

\* archive bytes: the entries written so far, and how many end-of-archive
\* footers follow them (1 in a finalized archive)
Bytes(ents, fin) == [ ents |-> ents, fin |-> fin ]
EmptyBytes == Bytes(<< >>, 0)

SrcArchives ==
    { Bytes(es, 1) : es \in UNION { [1..n -> SrcEntries] : n \in 0..MaxEntries } }
        \cup { EmptyBytes }

\* names a caller looks up
LookupNames == { N_a, N_none }

-----------------------------------------------------------------------------
(* Session state: representation.                                          *)

TAR_MODE_READ == "TAR_MODE_READ"
TAR_MODE_WRITE == "TAR_MODE_WRITE"
TAR_MODE_APPEND == "TAR_MODE_APPEND"

TAR_CM_NONE == "TAR_CM_NONE"
TAR_CM_GZIP == "TAR_CM_GZIP"
TAR_CM_BZIP2 == "TAR_CM_BZIP2"
TAR_CM_XZ == "TAR_CM_XZ"
TAR_CM_ZSTD == "TAR_CM_ZSTD"
TAR_CM_LZ4 == "TAR_CM_LZ4"
TAR_CM_INVALID == "TAR_CM_INVALID"     \* any value >= 0 the switch does not name
TAR_CM_UNSET == "TAR_CM_UNSET"         \* any value < 0: no method given

TAR_FORMAT_USTAR == "TAR_FORMAT_USTAR"
TAR_FORMAT_PAX == "TAR_FORMAT_PAX"
TAR_FORMAT_GNU == "TAR_FORMAT_GNU"
TAR_FORMAT_V7 == "TAR_FORMAT_V7"

\* (compression method, dialect, coder output reaches the backing per entry)
\* the last component stands for entries at least as large as the coder's
\* output block: libarchive hands full blocks to the write callback at once
\* and keeps a partial block until the coder is closed
WriteConfigs ==
    { << TAR_CM_NONE, TAR_FORMAT_PAX, FALSE >>,
      << TAR_CM_GZIP, TAR_FORMAT_USTAR, TRUE >>,
      << TAR_CM_INVALID, TAR_FORMAT_PAX, FALSE >> }

NullWriter == [ h |-> "null", pending |-> << >>, direct |-> FALSE, setup |-> << >> ]
NewWriter(direct) ==
    [ h |-> "open", pending |-> << >>, direct |-> direct, setup |-> << >> ]

NoFile == [ ents |-> << >>, fin |-> 0, exists |-> FALSE ]
FileOf(b) == [ ents |-> b.ents, fin |-> b.fin, exists |-> TRUE ]

\* read_buffer before the first callback of the thread has allocated it
NoBuffer == [ k \in 1..TAR_BUFFER_SIZE |-> "unallocated" ]

\* the coder's view of the block its last read callback returned: `next`
\* and `avail` delimit what it has not consumed yet; `block` is the block as
\* it was returned; `inplace` says whether the coder reads through the
\* pointer it was given (the callback contract lets it, until its next
\* callback) or from a copy it made
NoClient == [ next |-> 1, avail |-> 0, block |-> << >>, inplace |-> FALSE ]

\* no stream-backed read session has been constructed
NoSessions ==
    [ i \in 1..2 |-> [ life |-> "none", input_stream |-> [ data |-> << >>, pos |-> 0 ],
                       client |-> NoClient, consumed |-> << >> ] ]

NoInput == [ data |-> EmptyBytes, pos |-> 0, set |-> FALSE ]
NoOutput == [ data |-> EmptyBytes, set |-> FALSE ]

\* the destination directory of an extractAll, which starts empty.  files: the
\* paths materialized; seen: the headers the walk read; log: the headers given
\* to archive_write_header(disk); raised_at is history: the header at which
\* the walk first raised an error, 0 when it raised none
EmptyDisk == [ files |-> { }, seen |-> << >>, log |-> << >>, raised_at |-> 0 ]

\* outcome of a public operation: the name it was called with (if any), the
\* exceptions raised on the sink, in order, the value returned and what the
\* operation left in its destination; stream: the stream object a stream
\* call was made on (0 for a call on the session)
On(r, i) == [ r EXCEPT !.stream = i ]
Null == [ isnull |-> TRUE ]
Val(v) == [ isnull |-> FALSE, v |-> v ]
Exc(code, msg) == [ code |-> code, msg |-> msg ]

\* the read coder has reported no failure
NoReadFault == [ kind |-> "none", at |-> 0 ]
Ok(op, v) ==
    [ stream |-> 0, op |-> op, arg |-> << >>, errs |-> << >>, val |-> Val(v),
      disk |-> EmptyDisk, fault |-> NoReadFault ]
Fail(op, code, msg) ==
    [ stream |-> 0, op |-> op, arg |-> << >>, errs |-> << Exc(code, msg) >>,
      val |-> Null, disk |-> EmptyDisk, fault |-> NoReadFault ]
NoRet ==
    [ stream |-> 0, op |-> "none", arg |-> << >>, errs |-> << >>, val |-> Null,
      disk |-> EmptyDisk, fault |-> NoReadFault ]

Min(a, b) == IF a < b THEN a ELSE b

-----------------------------------------------------------------------------
(* Compression of a file-backed session.                                   *)

\* a test that finds the suffix anywhere in the name
strcmp_tail_anywhere(filename, suffix) ==
    \E k \in 1..Len(filename) :
        /\ k + Len(suffix) - 1 <= Len(filename)
        /\ SubSeq(filename, k, k + Len(suffix) - 1) = suffix

\* len >= n && strcmp(filename + len - n, suffix) == 0, n the suffix length
strcmp_tail(filename, suffix) ==
    /\ Len(filename) >= Len(suffix)
    /\ SubSeq(filename, Len(filename) - Len(suffix) + 1, Len(filename)) = suffix

detect_compression_from_filename(filename) ==
    IF filename = NULLSTR THEN TAR_CM_NONE
    ELSE IF Len(filename) < 4 THEN TAR_CM_NONE
    ELSE IF strcmp_tail(filename, << ".", "t", "a", "r", ".", "g", "z" >>) THEN TAR_CM_GZIP
    ELSE IF strcmp_tail(filename, << ".", "t", "g", "z" >>) THEN TAR_CM_GZIP
    ELSE IF strcmp_tail(filename, << ".", "t", "a", "r", ".", "b", "z", "2" >>) THEN TAR_CM_BZIP2
    ELSE IF strcmp_tail(filename, << ".", "t", "b", "z", "2" >>) THEN TAR_CM_BZIP2
    ELSE IF strcmp_tail(filename, << ".", "t", "b", "z" >>) THEN TAR_CM_BZIP2
    ELSE IF strcmp_tail(filename, << ".", "t", "a", "r", ".", "x", "z" >>) THEN TAR_CM_XZ
    ELSE IF strcmp_tail(filename, << ".", "t", "x", "z" >>) THEN TAR_CM_XZ
    ELSE IF strcmp_tail(filename, << ".", "t", "a", "r", ".", "z", "s", "t" >>) THEN TAR_CM_ZSTD
    ELSE IF strcmp_tail(filename, << ".", "t", "a", "r", ".", "z", "s", "t", "d" >>) THEN TAR_CM_ZSTD
    ELSE IF strcmp_tail(filename, << ".", "t", "a", "r", ".", "l", "z", "4" >>) THEN TAR_CM_LZ4
    ELSE IF strcmp_tail(filename, << ".", "t", "a", "r" >>) THEN TAR_CM_NONE
    ELSE TAR_CM_NONE

\* QoreTarFile(path, mode, compression_method, format): the method the
\* session keeps
fileCompression(filename, cm) ==
    IF cm = TAR_CM_UNSET THEN detect_compression_from_filename(filename) ELSE cm

-----------------------------------------------------------------------------
(* Helpers of the session.                                                 *)

\* strcmp(archive_name, lookup_name) == 0 (the platform without CoreFoundation)
entryNameEquals(archive_name, lookup_name) == archive_name = lookup_name

\* setupCompressionFilter: "ok", or the message raised with TAR-ERROR
setupCompressionFilter(cm) ==
    IF cm \in { TAR_CM_NONE, TAR_CM_GZIP, TAR_CM_BZIP2, TAR_CM_XZ, TAR_CM_ZSTD, TAR_CM_LZ4 }
    THEN "ok"
    ELSE "invalid compression method"

\* setupCompressionFilter: the archive_write_add_filter_* call of each case
filterOf(cm) ==
    CASE cm = TAR_CM_NONE -> "archive_write_add_filter_none"
      [] cm = TAR_CM_GZIP -> "archive_write_add_filter_gzip"
      [] cm = TAR_CM_BZIP2 -> "archive_write_add_filter_bzip2"
      [] cm = TAR_CM_XZ -> "archive_write_add_filter_xz"
      [] cm = TAR_CM_ZSTD -> "archive_write_add_filter_zstd"
      [] cm = TAR_CM_LZ4 -> "archive_write_add_filter_lz4"

\* an openWrite that opens the backend and then sets the filter up
openWriteCallsOpenFirst(cm, backend) == << backend, filterOf(cm) >>

\* openWrite, after archive_write_set_format: the calls made on the write
\* coder, in order: setupCompressionFilter, then the open of the backend
openWriteCalls(cm, backend) == << filterOf(cm), backend >>

\* openWrite: the write coder it leaves in write_archive; none when
\* setupCompressionFilter has raised
openWrite(cm, direct, backend) ==
    IF setupCompressionFilter(cm) = "ok"
    THEN [ NewWriter(direct) EXCEPT !.setup = openWriteCalls(cm, backend) ]
    ELSE NullWriter

\* a check of the lifecycle flag alone
checkOpenClosedOnly(forWrite) == IF closed THEN "archive is closed" ELSE "ok"

\* a check that looks at the handles and not at the closed flag
checkOpenHandlesOnly(forWrite) ==
    IF forWrite
    THEN (IF write_archive.h = "null" THEN "archive is not open for writing" ELSE "ok")
    ELSE (IF read_archive = "null" /\ ~in_memory
          THEN "archive is not open for reading" ELSE "ok")

\* checkOpen: "ok", or the message raised with TAR-ERROR
checkOpen(forWrite) ==
    IF closed THEN "archive is closed"
    ELSE IF forWrite
         THEN (IF write_archive.h = "null" THEN "archive is not open for writing" ELSE "ok")
         ELSE (IF read_archive = "null" /\ ~in_memory
               THEN "archive is not open for reading" ELSE "ok")

\* what one open of the read coder pulls from the Qore input stream, and what
\* a walk that needs `need` entries pulls: whole blocks, never past the end
PullTo(is, need) ==
    LET blocks == IF need <= StreamBlock THEN 1
                  ELSE (need + StreamBlock - 1) \div StreamBlock
    IN  Min(Len(is.data.ents), is.pos + blocks * StreamBlock)

\* stream_read_callback over a whole walk: the stream only moves forward
stream_read_callback(is, need) == [ is EXCEPT !.pos = PullTo(is, need) ]

\* openRead after reopenRead has released the old coder.  `garbled` says
\* whether the bytes left in a partly consumed stream start inside an entry.
\* Result: the new read_archive, the message raised ("ok" if none) and the
\* entries the coder will deliver.
openRead(garbled) ==
    IF in_memory
    THEN IF memory_buffer = EmptyBytes
         THEN [ ents |-> << >>, h |-> "new", err |-> "ok" ]
         ELSE [ ents |-> memory_buffer.ents, h |-> "open", err |-> "ok" ]
    ELSE IF input_stream.set
    THEN IF garbled
         THEN [ ents |-> << >>, h |-> "null", err |-> "failed to open archive for reading" ]
         ELSE [ ents |-> SubSeq(input_stream.data.ents, input_stream.pos + 1,
                                Len(input_stream.data.ents)), h |-> "open",
                err |-> "ok" ]
    ELSE IF file.exists
         THEN [ ents |-> file.ents, h |-> "open", err |-> "ok" ]
         ELSE [ ents |-> << >>, h |-> "null", err |-> "failed to open archive for reading" ]

\* the outcomes of `garbled` possible in the current state
Garblings ==
    IF /\ ~in_memory /\ input_stream.set /\ input_stream.pos > 0
       /\ input_stream.pos < Len(input_stream.data.ents)
    THEN BOOLEAN ELSE { FALSE }

\* archive_write_close writes one footer; archive_write_header writes none
Footers(fin) == IF fin THEN 1 ELSE 0

\* memory_write_callback / stream_write_callback / write to filepath:
\* the coder hands `es` (and the footer when `fin`) to the backing
Emit(es, fin) ==
    /\ memory_buffer' = IF in_memory
                        THEN Bytes(memory_buffer.ents \o es, memory_buffer.fin + Footers(fin))
                        ELSE memory_buffer
    /\ output_stream' = IF ~in_memory /\ output_stream.set
                        THEN [ output_stream EXCEPT
                                 !.data = Bytes(@.ents \o es, @.fin + Footers(fin)) ]
                        ELSE output_stream
    /\ file' = IF ~in_memory /\ ~output_stream.set
               THEN [ ents |-> file.ents \o es, fin |-> file.fin + Footers(fin),
                      exists |-> TRUE ]
               ELSE file

\* a coder that puts each new entry before the entries it still holds
WriteEntryFirst(e) ==
    IF write_archive.direct
    THEN /\ Emit(<< e >> \o write_archive.pending, FALSE)
         /\ write_archive' = [ write_archive EXCEPT !.pending = << >> ]
    ELSE /\ write_archive' = [ write_archive EXCEPT !.pending = << e >> \o @ ]
         /\ UNCHANGED << memory_buffer, output_stream, file >>

\* archive_write_header + archive_write_data of one entry on the write coder
WriteEntry(e) ==
    IF write_archive.direct
    THEN /\ Emit(write_archive.pending \o << e >>, FALSE)
         /\ write_archive' = [ write_archive EXCEPT !.pending = << >> ]
    ELSE /\ write_archive' = [ write_archive EXCEPT !.pending = Append(@, e) ]
         /\ UNCHANGED << memory_buffer, output_stream, file >>

\* archive_write_close + archive_write_free
CloseWriter ==
    /\ Emit(write_archive.pending, TRUE)
    /\ write_archive' = NullWriter

\* a copy that writes the headers and no payload
copyEntriesHeadersOnly(es) == [ i \in 1..Len(es) |-> [ es[i] EXCEPT !.data = << >> ] ]

\* copyEntries: every header is written as read; the payload is copied only
\* for entries whose size is positive
copyEntries(es) ==
    [ i \in 1..Len(es) |->
        [ es[i] EXCEPT !.data = IF es[i].size > 0 THEN es[i].data ELSE << >> ] ]

\* archive_read_free(read_archive): every TarInputStream made so far keeps
\* its pointer to a coder that is now released
releaseRead(streams) ==
    [ i \in 1..Len(streams) |-> [ streams[i] EXCEPT !.archive.h = "freed" ] ]

-----------------------------------------------------------------------------
(* Constructors.                                                           *)

\* QoreTarFile(path, TAR_MODE_READ, ...): openRead over filepath
NewFileRead ==
    /\ life = "none"
    /\ life' = "live"
    /\ mode' = TAR_MODE_READ
    /\ in_memory' = FALSE
    /\ closed' = FALSE
    /\ compression_method' = fileCompression(path, TAR_CM_UNSET)
    /\ format' = TAR_FORMAT_PAX
    /\ memory_buffer' = EmptyBytes
    /\ input_stream' = NoInput
    /\ output_stream' = NoOutput
    /\ write_archive' = NullWriter
    /\ read_archive' = IF file.exists THEN "open" ELSE "null"
    /\ ret' = IF file.exists THEN Ok("constructor", "file")
              ELSE Fail("constructor", "TAR-ERROR", "failed to open archive for reading")
    /\ origin' = "file"
    /\ UNCHANGED << path, safe, read_buffer, sessions, tarOutputStreams, tarInputStreams, file, existing_data, calls >>

\* QoreTarFile(path, TAR_MODE_WRITE, cm, format): openWrite over filepath
NewFileWrite(cfg) ==
    /\ life = "none"
    /\ life' = "live"
    /\ mode' = TAR_MODE_WRITE
    /\ in_memory' = FALSE
    /\ closed' = FALSE
    /\ compression_method' = fileCompression(path, cfg[1])
    /\ format' = cfg[2]
    /\ memory_buffer' = EmptyBytes
    /\ input_stream' = NoInput
    /\ output_stream' = NoOutput
    /\ read_archive' = "null"
    /\ IF setupCompressionFilter(fileCompression(path, cfg[1])) = "ok"
       THEN /\ write_archive' = openWrite(fileCompression(path, cfg[1]), cfg[3],
                                          "archive_write_open_filename")
            /\ file' = [ ents |-> << >>, fin |-> 0, exists |-> TRUE ]
            /\ ret' = Ok("constructor", "file")
       ELSE /\ write_archive' = NullWriter
            /\ file' = file
            /\ ret' = Fail("constructor", "TAR-ERROR", setupCompressionFilter(fileCompression(path, cfg[1])))
    /\ origin' = "file"
    /\ UNCHANGED << path, safe, read_buffer, sessions, tarOutputStreams, tarInputStreams, existing_data, calls >>

\* a session that keeps TAR_MODE_APPEND whether the file is there or not
openAppendModeKept(exists) == TAR_MODE_APPEND

\* openAppend, the mode it leaves: a missing file turns the session into a
\* write session, an existing one keeps TAR_MODE_APPEND
openAppendMode(exists) == IF exists THEN TAR_MODE_APPEND ELSE TAR_MODE_WRITE

\* QoreTarFile(path, TAR_MODE_APPEND, cm, format): openAppend, over an
\* archive file of at most `most` entries
OpenAppend(cfg, most) ==
    /\ life = "none"
    /\ Len(file.ents) <= most
    /\ life' = "live"
    /\ mode' = openAppendMode(file.exists)
    /\ in_memory' = FALSE
    /\ closed' = FALSE
    /\ compression_method' = fileCompression(path, cfg[1])
    /\ format' = cfg[2]
    /\ memory_buffer' = EmptyBytes
    /\ input_stream' = NoInput
    /\ output_stream' = NoOutput
    /\ read_archive' = "null"
    /\ IF setupCompressionFilter(fileCompression(path, cfg[1])) = "ok"
       THEN /\ write_archive' =
                  [ openWrite(fileCompression(path, cfg[1]), cfg[3],
                              "archive_write_open_filename")
                      EXCEPT !.pending = IF cfg[3] THEN << >> ELSE copyEntries(file.ents) ]
            /\ file' = [ ents |-> IF cfg[3] THEN copyEntries(file.ents) ELSE << >>, fin |-> 0,
                         exists |-> TRUE ]
            /\ ret' = Ok("constructor", "file")
       ELSE /\ write_archive' = NullWriter
            /\ file' = file
            /\ ret' = Fail("constructor", "TAR-ERROR", setupCompressionFilter(fileCompression(path, cfg[1])))
    /\ origin' = "file"
    /\ existing_data' = file
    /\ UNCHANGED << path, safe, read_buffer, sessions, tarOutputStreams, tarInputStreams, calls >>

NewFileAppend(cfg) == OpenAppend(cfg, MaxAppendEntries)

\* the same constructor over every archive file of the model
NewFileAppendAll(cfg) == OpenAppend(cfg, MaxEntries)

\* the calls of openAppend and copyEntries that can fail over an existing
\* file, and for those inside the copy loop the entry they fail at
BootstrapFaults ==
    { [ at |-> 0, step |-> st ] :
        st \in { "fopen", "fread", "archive_read_open_memory",
                 "archive_write_open_filename" } }
    \cup { [ at |-> k, step |-> st ] :
             st \in { "archive_read_next_header", "archive_write_header",
                      "archive_read_data" },
             k \in 1..Len(file.ents) }

\* an openAppend that opens the path for writing before it reads the file
openWriteReachedFirst(step) == TRUE

\* whether archive_write_open_filename has succeeded on the path by the
\* time `step` fails: openAppend calls it after the file has been read and
\* the read coder opened, and copyEntries runs after it
openWriteReached(step) ==
    step \in { "archive_read_next_header", "archive_write_header", "archive_read_data" }

\* the message openAppend or copyEntries raises when `step` fails; the loop
\* of copyEntries ends without one when archive_read_next_header fails
bootstrapError(step) ==
    CASE step = "fopen" -> "failed to open archive for reading"
      [] step = "fread" -> "failed to read existing archive"
      [] step = "archive_read_open_memory" -> "failed to open existing archive"
      [] step = "archive_write_open_filename" -> "failed to open archive for writing"
      [] step = "archive_write_header" -> "failed to copy entry header"
      [] step = "archive_read_data" -> "failed to read entry data"
      [] OTHER -> "ok"

\* what copyEntries has given the write coder when `fault` stops it: the
\* entries before fault.at, and the header of that entry without its
\* payload when the payload could not be read
copiedBefore(es, fault) ==
    copyEntries(SubSeq(es, 1, fault.at - 1))
      \o (IF fault.step = "archive_read_data"
          THEN << [ es[fault.at] EXCEPT !.data = << >> ] >> ELSE << >>)

\* QoreTarFile(path, TAR_MODE_APPEND, cm, format) over an existing file,
\* when a call under openAppend or copyEntries fails
OpenAppendFault(cfg, fault) ==
    /\ life = "none"
    /\ file.exists
    /\ fault.step = "archive_read_data" => file.ents[fault.at].size > 0
    /\ fault.step \notin { "fopen", "fread", "archive_read_open_memory" }
          => setupCompressionFilter(fileCompression(path, cfg[1])) = "ok"
    /\ life' = "live"
    /\ mode' = openAppendMode(file.exists)
    /\ in_memory' = FALSE
    /\ closed' = FALSE
    /\ compression_method' = fileCompression(path, cfg[1])
    /\ format' = cfg[2]
    /\ memory_buffer' = EmptyBytes
    /\ input_stream' = NoInput
    /\ output_stream' = NoOutput
    /\ read_archive' = "null"
    /\ IF openWriteReached(fault.step)
       THEN /\ write_archive' =
                  [ openWrite(fileCompression(path, cfg[1]), cfg[3],
                              "archive_write_open_filename")
                      EXCEPT !.pending = IF cfg[3] THEN << >>
                                         ELSE copiedBefore(file.ents, fault) ]
            /\ file' = [ ents |-> IF cfg[3] THEN copiedBefore(file.ents, fault)
                                  ELSE << >>, fin |-> 0,
                         exists |-> TRUE ]
       ELSE /\ write_archive' = NullWriter
            /\ file' = file
    /\ ret' = [ (IF bootstrapError(fault.step) = "ok"
                 THEN Ok("constructor", "file")
                 ELSE Fail("constructor", "TAR-ERROR", bootstrapError(fault.step)))
                  EXCEPT !.fault = [ kind |-> fault.step, at |-> fault.at ] ]
    /\ origin' = "file"
    /\ existing_data' = IF fault.step = "fopen" THEN NoFile
                        ELSE IF fault.step = "fread" THEN FileOf(Bytes(<< >>, 0))
                        ELSE file
    /\ UNCHANGED << path, safe, read_buffer, sessions, tarOutputStreams, tarInputStreams, calls >>

\* QoreTarFile(const BinaryNode* data): the blob is copied, then openRead
NewMemoryRead(data, from) ==
    /\ life' = "live"
    /\ mode' = TAR_MODE_READ
    /\ in_memory' = TRUE
    /\ closed' = FALSE
    /\ compression_method' = TAR_CM_NONE
    /\ format' = TAR_FORMAT_PAX
    /\ memory_buffer' = data
    /\ input_stream' = NoInput
    /\ output_stream' = NoOutput
    /\ write_archive' = NullWriter
    /\ read_archive' = IF data = EmptyBytes THEN "new" ELSE "open"
    /\ ret' = Ok("constructor", "memory")
    /\ origin' = from
    /\ tarInputStreams' = releaseRead(tarInputStreams)
    /\ UNCHANGED << path, safe, read_buffer, sessions, tarOutputStreams, file, existing_data, calls >>

\* a read session over a blob that exists beforehand
NewMemoryReadSrc ==
    /\ life = "none"
    /\ ~file.exists
    /\ \E data \in SrcArchives : NewMemoryRead(data, "src")

\* QoreTarFile(cm, format): a new in-memory archive
NewMemoryWrite(cfg) ==
    /\ life = "none"
    /\ ~file.exists
    /\ life' = "live"
    /\ mode' = TAR_MODE_WRITE
    /\ in_memory' = TRUE
    /\ closed' = FALSE
    /\ compression_method' = cfg[1]
    /\ format' = cfg[2]
    /\ memory_buffer' = EmptyBytes
    /\ input_stream' = NoInput
    /\ output_stream' = NoOutput
    /\ read_archive' = "null"
    /\ write_archive' = openWrite(cfg[1], cfg[3], "memory_write_callback")
    /\ ret' = IF setupCompressionFilter(cfg[1]) = "ok" THEN Ok("constructor", "memory")
              ELSE Fail("constructor", "TAR-ERROR", setupCompressionFilter(cfg[1]))
    /\ origin' = "new"
    /\ UNCHANGED << path, safe, read_buffer, sessions, tarOutputStreams, tarInputStreams, file, existing_data, calls >>

\* QoreTarFile(InputStream* input): openRead pulls the first block
NewStreamRead ==
    /\ life = "none"
    /\ ~file.exists
    /\ \E data \in SrcArchives :
          input_stream' = stream_read_callback([ data |-> data, pos |-> 0, set |-> TRUE ], 1)
    /\ life' = "live"
    /\ mode' = TAR_MODE_READ
    /\ in_memory' = FALSE
    /\ closed' = FALSE
    /\ compression_method' = TAR_CM_NONE
    /\ format' = TAR_FORMAT_PAX
    /\ memory_buffer' = EmptyBytes
    /\ output_stream' = NoOutput
    /\ write_archive' = NullWriter
    /\ read_archive' = "open"
    /\ ret' = Ok("constructor", "stream")
    /\ origin' = "stream"
    /\ UNCHANGED << path, safe, read_buffer, sessions, tarOutputStreams, tarInputStreams, file, existing_data, calls >>

\* QoreTarFile(OutputStream* output, cm, format)
NewStreamWrite(cfg) ==
    /\ life = "none"
    /\ ~file.exists
    /\ life' = "live"
    /\ mode' = TAR_MODE_WRITE
    /\ in_memory' = FALSE
    /\ closed' = FALSE
    /\ compression_method' = cfg[1]
    /\ format' = cfg[2]
    /\ memory_buffer' = EmptyBytes
    /\ input_stream' = NoInput
    /\ output_stream' = [ data |-> EmptyBytes, set |-> TRUE ]
    /\ read_archive' = "null"
    /\ write_archive' = openWrite(cfg[1], cfg[3], "stream_write_callback")
    /\ ret' = IF setupCompressionFilter(cfg[1]) = "ok" THEN Ok("constructor", "stream")
              ELSE Fail("constructor", "TAR-ERROR", setupCompressionFilter(cfg[1]))
    /\ origin' = "stream"
    /\ UNCHANGED << path, safe, read_buffer, sessions, tarOutputStreams, tarInputStreams, file, existing_data, calls >>

-----------------------------------------------------------------------------
(* close, toData, destructor.                                              *)

\* a close that finalizes the write coder whether or not it is still held
CloseBodyAlways ==
    /\ read_archive' = "null"
    /\ tarInputStreams' = releaseRead(tarInputStreams)
    /\ CloseWriter
    /\ closed' = TRUE

\* a close that releases the write coder without finalizing it
CloseBodyUnfinished ==
    /\ read_archive' = "null"
    /\ tarInputStreams' = releaseRead(tarInputStreams)
    /\ write_archive' = NullWriter
    /\ UNCHANGED << memory_buffer, output_stream, file >>
    /\ closed' = TRUE

\* the body of close(): both coders are finalized and released
CloseBody ==
    /\ read_archive' = "null"
    /\ tarInputStreams' = releaseRead(tarInputStreams)
    /\ IF write_archive.h # "null"
       THEN CloseWriter
       ELSE UNCHANGED << write_archive, memory_buffer, output_stream, file >>
    /\ closed' = TRUE

close ==
    /\ life = "live"
    /\ IF closed
       THEN UNCHANGED << read_archive, write_archive, memory_buffer, output_stream,
                         file, closed, tarInputStreams >>
       ELSE CloseBody
    /\ ret' = Ok("close", "void")
    /\ UNCHANGED << path, safe, read_buffer, sessions, tarOutputStreams, life, mode, in_memory, compression_method, format,
                    input_stream, origin, existing_data, calls >>

\* ~QoreTarFile
Destroy ==
    /\ life = "live"
    /\ life' = "dead"
    /\ IF closed
       THEN UNCHANGED << read_archive, write_archive, memory_buffer, output_stream,
                         file, closed, tarInputStreams >>
       ELSE CloseBody
    /\ ret' = NoRet
    /\ UNCHANGED << path, safe, read_buffer, sessions, tarOutputStreams, mode, in_memory, compression_method, format,
                    input_stream, origin, existing_data, calls >>

\* a toData that finalizes whenever the session is a write session
toDataFinalizes == mode = TAR_MODE_WRITE

\* toData: `if (mode == TAR_MODE_WRITE && write_archive)`
toDataFinalizesHeld == mode = TAR_MODE_WRITE /\ write_archive.h # "null"

toData ==
    /\ life = "live"
    /\ IF ~in_memory
       THEN /\ ret' = Fail("toData", "TAR-ERROR",
                           "cannot get binary data from file-based archive")
            /\ UNCHANGED << write_archive, memory_buffer, output_stream, file >>
       ELSE /\ IF toDataFinalizesHeld
               THEN CloseWriter
               ELSE UNCHANGED << write_archive, memory_buffer, output_stream, file >>
            /\ ret' = Ok("toData", memory_buffer')
    /\ UNCHANGED << path, safe, read_buffer, sessions, tarOutputStreams, tarInputStreams, life, mode, in_memory, closed, read_archive,
                    compression_method, format, input_stream, origin, existing_data, calls >>

\* QoreTarFile(data) over the bytes the last toData() of a write session
\* returned; the session that produced them is gone
NewMemoryReadBack ==
    /\ life = "live"
    /\ mode = TAR_MODE_WRITE
    /\ ret.op = "toData"
    /\ ret.errs = << >>
    /\ NewMemoryRead(ret.val.v, "toData")

\* QoreTarFile(path, TAR_MODE_READ, ...) over the file an append session
\* has closed
NewFileReadBack ==
    /\ life = "live"
    /\ mode = TAR_MODE_APPEND
    /\ closed
    /\ mode' = TAR_MODE_READ
    /\ closed' = FALSE
    /\ read_archive' = "open"
    /\ write_archive' = NullWriter
    /\ ret' = Ok("constructor", "file")
    /\ origin' = "appended"
    /\ UNCHANGED << path, safe, read_buffer, sessions, tarOutputStreams, tarInputStreams, life, in_memory, compression_method, format,
                    memory_buffer, input_stream, output_stream, file, existing_data, calls >>

-----------------------------------------------------------------------------
(* Entry metadata.                                                         *)

\* hardlink_target && *hardlink_target
HasTextNonNull(str) == str # NULLSTR

HasText(str) == str # NULLSTR /\ str # << >>

\* archive_entry_mode(entry): the filetype bits and the permission bits of
\* the header, kept apart
archive_entry_mode(e) == << e.filetype, e.perm >>

\* createEntryInfo: the TarEntryInfo hash (link_target NULLSTR = key not set)
createEntryInfo(e) ==
    [ mode |-> archive_entry_mode(e),
      size |-> e.size,
      name |-> e.pathname,
      type |-> IF HasText(e.hardlink) THEN "hardlink"
               ELSE CASE e.filetype = AE_IFREG -> "file"
                      [] e.filetype = AE_IFDIR -> "directory"
                      [] e.filetype = AE_IFLNK -> "symlink"
                      [] e.filetype = AE_IFCHR -> "chardev"
                      [] e.filetype = AE_IFBLK -> "blockdev"
                      [] e.filetype = AE_IFIFO -> "fifo"
                      [] e.filetype = AE_IFSOCK -> "socket"
                      [] OTHER -> "unknown",
      link_target |-> IF e.symlink # NULLSTR THEN e.symlink ELSE e.hardlink,
      is_directory |-> e.filetype = AE_IFDIR,
      is_symlink |-> e.filetype = AE_IFLNK,
      is_hardlink |-> e.hardlink # NULLSTR ]

-----------------------------------------------------------------------------
(* Query operations.  Each walk yields [errs, val, need]: the exceptions   *)
(* raised, the value returned and how many entries the coder had to pull.  *)

\* while (archive_read_next_header(...) == ARCHIVE_OK) { if (entryNameEquals(...)) ...
\* the index of the header the loop stops at, 0 if it runs to the end
FirstMatch(es, name) ==
    IF \E i \in 1..Len(es) : entryNameEquals(es[i].pathname, name)
    THEN CHOOSE i \in 1..Len(es) :
            /\ entryNameEquals(es[i].pathname, name)
            /\ \A j \in 1..(i - 1) : ~entryNameEquals(es[j].pathname, name)
    ELSE 0

NotFound(es) ==
    [ errs |-> << Exc("TAR-ERROR", "entry not found") >>, val |-> Null,
      need |-> Len(es) + 1 ]

entries_walk(es) ==
    [ errs |-> << >>, val |-> Val([ i \in 1..Len(es) |-> createEntryInfo(es[i]) ]),
      need |-> Len(es) + 1 ]

count_walk(es) == [ errs |-> << >>, val |-> Val(Len(es)), need |-> Len(es) + 1 ]

hasEntry_walk(es, name) ==
    IF FirstMatch(es, name) = 0
    THEN [ errs |-> << >>, val |-> Val(FALSE), need |-> Len(es) + 1 ]
    ELSE [ errs |-> << >>, val |-> Val(TRUE), need |-> FirstMatch(es, name) ]

\* a null return without an exception is NOTHING
getEntry_walk(es, name) ==
    IF FirstMatch(es, name) = 0
    THEN [ errs |-> << >>, val |-> Null, need |-> Len(es) + 1 ]
    ELSE [ errs |-> << >>, val |-> Val(createEntryInfo(es[FirstMatch(es, name)])),
           need |-> FirstMatch(es, name) ]

read_walk(es, name) ==
    LET j == FirstMatch(es, name)
    IN  IF j = 0 THEN NotFound(es)
        ELSE IF es[j].size <= 0
        THEN [ errs |-> << >>, val |-> Val(<< >>), need |-> j ]
        ELSE [ errs |-> << >>, val |-> Val(es[j].data), need |-> j ]

\* extractTo: the value is what was written to the destination file
extractTo_walk(es, name) ==
    LET j == FirstMatch(es, name)
    IN  IF j = 0 THEN NotFound(es)
        ELSE [ errs |-> << >>, val |-> Val(es[j].data), need |-> j ]

\* openInputStream: the value is the entry the TarInputStream is bound to
openInputStream_walk(es, name) ==
    LET j == FirstMatch(es, name)
    IN  IF j = 0 THEN NotFound(es)
        ELSE [ errs |-> << >>, val |-> Val(es[j]), need |-> j ]

\* no byte: the -1 of peek_byte and of peek()
NoByte == "-1"

\* TarInputStream(a, entry, xsink): the object keeps the pointer to the
\* session's read coder, which stands at the start of the entry's payload
\* (archive.off: the payload bytes the coder has handed out; archive.faults:
\* the reads it has failed).  alive: not yet destroyed.  delivered is
\* history: the bytes read() has returned.
TarInputStream(entry) ==
    [ closed |-> FALSE, archive |-> [ h |-> "open", off |-> 0, faults |-> 0 ],
      entry |-> entry, entry_size |-> entry.size, bytes_read |-> 0,
      peek_byte |-> NoByte, has_peek |-> FALSE, alive |-> TRUE, delivered |-> << >> ]

\* reopenRead: the old coder is released, then openRead
reopenRead(garbled) == openRead(garbled)

\* the loop of each query over the entries the coder delivers
WalkOf(op, es, name) ==
    CASE op = "entries" -> entries_walk(es)
      [] op = "count" -> count_walk(es)
      [] op = "hasEntry" -> hasEntry_walk(es, name)
      [] op = "getEntry" -> getEntry_walk(es, name)
      [] op \in { "read", "readText" } -> read_walk(es, name)
      [] op = "extractTo" -> extractTo_walk(es, name)
      [] op = "openInputStream" -> openInputStream_walk(es, name)

\* the failures the read coder can report during one walk:
\* archive_read_next_header returns other than ARCHIVE_OK or ARCHIVE_EOF at
\* header `at`, or archive_read_data returns a negative value in the payload
\* of entry `at`
ReadCoderFaults ==
    { [ kind |-> k, at |-> i ] :
        k \in { "archive_read_next_header", "archive_read_data" }, i \in 1..MaxEntries }

\* the read coder does report `rf` during the walk of `op` over es: the
\* loop gets as far as that header, or reads the payload of that entry
Occurs(op, es, name, rf) ==
    /\ rf.at <= Len(es)
    /\ IF rf.kind = "archive_read_next_header"
       THEN rf.at <= WalkOf(op, es, name).need
       ELSE /\ op \in { "read", "readText", "extractTo" }
            /\ FirstMatch(es, name) = rf.at
            /\ es[rf.at].size > 0

\* the loop of each query when the read coder reports rf: a header that is
\* not ARCHIVE_OK ends `while (archive_read_next_header(...) == ARCHIVE_OK)`
\* as the end of the archive does; read() tests bytes_read < 0 after its
\* payload loop, extractTo closes the destination and returns
WalkOn(op, es, name, rf) ==
    IF rf.kind = "archive_read_next_header"
    THEN WalkOf(op, SubSeq(es, 1, rf.at - 1), name)
    ELSE IF rf.kind = "archive_read_data"
    THEN IF op = "extractTo"
         THEN [ errs |-> << >>, val |-> Val(<< >>), need |-> rf.at ]
         ELSE [ errs |-> << Exc("TAR-ERROR", "failed to read entry data") >>,
                val |-> Null, need |-> rf.at ]
    ELSE WalkOf(op, es, name)

\* checkOpen(xsink, false); reopenRead(xsink); the walk
QueryOpOn(op, name, rf) ==
    /\ life = "live"
    /\ IF checkOpen(FALSE) # "ok"
       THEN /\ rf = NoReadFault
            /\ ret' = [ Fail(op, "TAR-ERROR", checkOpen(FALSE)) EXCEPT !.arg = name ]
            /\ UNCHANGED << read_archive, input_stream, tarInputStreams >>
       ELSE \E garbled \in Garblings :
              LET o == reopenRead(garbled)
                  opens == /\ op = "openInputStream"
                           /\ o.err = "ok"
                           /\ WalkOn(op, o.ents, name, rf).errs = << >>
              IN  /\ rf # NoReadFault => (o.err = "ok" /\ Occurs(op, o.ents, name, rf))
                  /\ read_archive' = o.h
                  /\ opens => Len(tarInputStreams) < MaxInputStreams
                  /\ tarInputStreams' =
                       IF opens
                       THEN Append(releaseRead(tarInputStreams),
                                   TarInputStream(WalkOn(op, o.ents, name, rf).val.v))
                       ELSE releaseRead(tarInputStreams)
                  /\ IF o.err # "ok"
                     THEN /\ ret' = [ Fail(op, "TAR-ERROR", o.err) EXCEPT !.arg = name ]
                          /\ input_stream' =
                               IF input_stream.set
                               THEN stream_read_callback(input_stream, 1)
                               ELSE input_stream
                     ELSE /\ ret' = [ stream |-> 0, op |-> op,
                                      arg |-> name,
                                      errs |-> WalkOn(op, o.ents, name, rf).errs,
                                      val |-> WalkOn(op, o.ents, name, rf).val, disk |-> EmptyDisk, fault |-> rf ]
                          /\ input_stream' =
                               IF input_stream.set
                               THEN stream_read_callback(input_stream, WalkOn(op, o.ents, name, rf).need)
                               ELSE input_stream
    /\ UNCHANGED << path, safe, read_buffer, sessions, tarOutputStreams, life, mode, in_memory, closed,
                    write_archive, compression_method, format, memory_buffer,
                    output_stream, file, origin, existing_data, calls >>

\* the same, the read coder reporting no failure
QueryOp(op, name) == QueryOpOn(op, name, NoReadFault)

entries == QueryOp("entries", << >>)
count == QueryOp("count", << >>)
hasEntry(name) == QueryOp("hasEntry", name)
getEntry(name) == QueryOp("getEntry", name)
read(name) == QueryOp("read", name)
\* readText: read, then the bytes become a string in the given encoding
readText(name) == QueryOp("readText", name)
extractTo(name) == QueryOp("extractTo", name)
openInputStream(name) == QueryOp("openInputStream", name)

-----------------------------------------------------------------------------
(* extractAll.                                                             *)

Destination == << "o" >>

\* the faults the disk writer can report during one extractAll:
\* archive_write_header(disk) fails at entry i, or archive_write_data_block
\* fails at entry i
NoFault == [ kind |-> "none", at |-> 0 ]
Faults ==
    { NoFault } \cup
    { [ kind |-> k, at |-> i ] :
        k \in { "header", "data" },
        i \in 1..(Len(file.ents) + Len(memory_buffer.ents) + Len(input_stream.data.ents)) }

\* the header as rewritten before it is given to the disk writer
Rooted(e) ==
    [ e EXCEPT !.pathname = Destination \o << "/" >> \o e.pathname,
               !.hardlink = IF HasText(e.hardlink)
                            THEN Destination \o << "/" >> \o e.hardlink
                            ELSE e.hardlink ]

\* a gate that looks at the entry path only
GatePathOnly(e) ==
    IF ~isPathSafe(e.pathname) THEN "refusing to extract entry with unsafe path"
    ELSE "ok"

\* the three gate checks of the loop body, in the order the code makes them:
\* "ok" or the message raised with TAR-SECURITY-ERROR
Gate(e) ==
    IF ~isPathSafe(e.pathname) THEN "refusing to extract entry with unsafe path"
    ELSE IF HasText(e.hardlink) /\ ~isPathSafe(e.hardlink)
    THEN "refusing to extract hardlink with unsafe target"
    ELSE IF HasText(e.symlink) /\ ~isPathSafe(e.symlink)
    THEN "refusing to extract symlink with unsafe target"
    ELSE "ok"

\* a loop that reports the violation and goes on with the next header
RECURSIVE extractLoopSkip(_, _, _, _)
extractLoopSkip(es, i, acc, fault) ==
    IF i > Len(es) THEN [ acc EXCEPT !.need = Len(es) + 1 ]
    ELSE IF Gate(es[i]) # "ok"
    THEN extractLoopSkip(es, i + 1,
            [ acc EXCEPT !.seen = Append(@, es[i]),
                         !.raised_at = IF @ = 0 THEN i ELSE @,
                         !.errs = Append(@, Exc("TAR-SECURITY-ERROR", Gate(es[i]))) ],
            fault)
    ELSE extractLoopSkip(es, i + 1,
            [ acc EXCEPT !.seen = Append(@, es[i]),
                         !.log = Append(@, Rooted(es[i])),
                         !.files = @ \cup { Rooted(es[i]).pathname } ],
            fault)

\* the while (archive_read_next_header(...) == ARCHIVE_OK) loop of extractAll
RECURSIVE extractLoop(_, _, _, _)
extractLoop(es, i, acc, fault) ==
    IF i > Len(es) THEN [ acc EXCEPT !.need = Len(es) + 1 ]
    ELSE IF Gate(es[i]) # "ok"
    THEN [ acc EXCEPT !.seen = Append(@, es[i]),
                      !.raised_at = IF @ = 0 THEN i ELSE @,
                      !.errs = Append(@, Exc("TAR-SECURITY-ERROR", Gate(es[i]))),
                      !.need = i ]
    ELSE IF fault = [ kind |-> "header", at |-> i ]
    THEN [ acc EXCEPT !.seen = Append(@, es[i]),
                      !.log = Append(@, Rooted(es[i])),
                      !.raised_at = IF @ = 0 THEN i ELSE @,
                      !.errs = Append(@, Exc("TAR-ERROR", "failed to extract")),
                      !.need = i ]
    ELSE extractLoop(es, i + 1,
            [ acc EXCEPT !.seen = Append(@, es[i]),
                         !.log = Append(@, Rooted(es[i])),
                         !.files = @ \cup { Rooted(es[i]).pathname },
                         !.raised_at = IF fault = [ kind |-> "data", at |-> i ]
                                          /\ es[i].size > 0 /\ @ = 0
                                       THEN i ELSE @,
                         !.errs = IF fault = [ kind |-> "data", at |-> i ] /\ es[i].size > 0
                                  THEN Append(@, Exc("TAR-ERROR", "failed to write data"))
                                  ELSE @ ],
            fault)

extractAll_walk(es, fault) ==
    extractLoop(es, 1,
        [ files |-> { }, seen |-> << >>, log |-> << >>, raised_at |-> 0, errs |-> << >>,
          need |-> 0 ],
        fault)

\* the entries as the loop of extractAll gets them when the read coder
\* reports rf: a header that is not ARCHIVE_OK ends the outer loop as the end
\* of the archive does; a block that is not ARCHIVE_OK ends the inner loop
\* `while (archive_read_data_block(...) == ARCHIVE_OK)` as the end of the
\* payload does, and the entry is finished with what was written
deliveredTo(es, rf) ==
    IF rf.kind = "archive_read_next_header" THEN SubSeq(es, 1, rf.at - 1)
    ELSE IF rf.kind = "archive_read_data"
    THEN [ i \in 1..Len(es) |-> IF i = rf.at THEN [ es[i] EXCEPT !.data = << >> ] ELSE es[i] ]
    ELSE es

\* the read coder does report rf during extractAll over es: the loop gets
\* as far as that header, or as far as the payload of that entry
extractAllOccurs(es, rf) ==
    /\ rf.at <= Len(es)
    /\ IF rf.kind = "archive_read_next_header"
       THEN extractAll_walk(es, NoFault).need >= rf.at
       ELSE /\ extractAll_walk(es, NoFault).need > rf.at
            /\ es[rf.at].size > 0

extractAllOn(rf) ==
    /\ life = "live"
    /\ IF checkOpen(FALSE) # "ok"
       THEN /\ rf = NoReadFault
            /\ ret' = Fail("extractAll", "TAR-ERROR", checkOpen(FALSE))
            /\ UNCHANGED << read_archive, input_stream, tarInputStreams >>
       ELSE \E garbled \in Garblings, fault \in Faults :
              LET o == reopenRead(garbled)
                  r == extractAll_walk(deliveredTo(o.ents, rf), fault)
              IN  /\ rf # NoReadFault
                        => /\ o.err = "ok"
                           /\ fault = NoFault
                           /\ extractAllOccurs(o.ents, rf)
                  /\ read_archive' = o.h
                  /\ tarInputStreams' = releaseRead(tarInputStreams)
                  /\ IF o.err # "ok"
                     THEN /\ ret' = Fail("extractAll", "TAR-ERROR", o.err)
                          /\ input_stream' =
                               IF input_stream.set
                               THEN stream_read_callback(input_stream, 1)
                               ELSE input_stream
                     ELSE /\ ret' = [ stream |-> 0, op |-> "extractAll",
                                      arg |-> << >>,
                                      errs |-> r.errs,
                                      val |-> IF r.errs = << >> THEN Val("void") ELSE Null,
                                      disk |-> [ files |-> r.files, seen |-> r.seen,
                                                 log |-> r.log,
                                                 raised_at |-> r.raised_at ],
                                      fault |-> rf ]
                          /\ input_stream' =
                               IF input_stream.set
                               THEN stream_read_callback(input_stream, r.need)
                               ELSE input_stream
    /\ UNCHANGED << path, safe, read_buffer, sessions, tarOutputStreams, life, mode, in_memory, closed,
                    write_archive, compression_method, format, memory_buffer,
                    output_stream, file, origin, existing_data, calls >>

\* the same, the read coder reporting no failure
extractAll == extractAllOn(NoReadFault)

-----------------------------------------------------------------------------
(* Write operations.                                                       *)

\* what the caller passes
AddNames == { N_atxt }
AddData == { Hello, NoBytes }
DirNames == { N_d, N_dir }
LinkNames == { N_b }
LinkTargets == { N_a, << >> }

\* the files addFile can be pointed at: none, or a regular file
FsNodes ==
    { [ data |-> << >>, perm |-> 0, mtime |-> 0, exists |-> FALSE ],
      [ data |-> OneByte, perm |-> 420, mtime |-> 1, exists |-> TRUE ] }

\* the record of one add* call: what was asked for
Call(op, name, size, target) ==
    [ size |-> size, op |-> op, name |-> name, target |-> target ]

\* a directory name that is written as given
dirnameAsGiven(name) == name

\* addDirectory: "Ensure name ends with /"
dirname(name) ==
    IF name # << >> /\ name[Len(name)] # "/" THEN name \o << "/" >> ELSE name

\* the add* calls one session may still make
CallsLeft ==
    Len(calls) < (IF mode = TAR_MODE_APPEND THEN MaxAppendCalls ELSE MaxCalls)

\* archive_write_header(write_archive, entry) != ARCHIVE_OK: a header that
\* carries neither a file type nor a link target names no tar record type,
\* and the coder may refuse it or write it as it stands; a path of more than
\* 255 characters has no place in a ustar or v7 header and is refused
Refusals(e) ==
    IF Len(e.pathname) > 255 /\ format \in { TAR_FORMAT_USTAR, TAR_FORMAT_V7 }
    THEN { TRUE }
    ELSE IF e.filetype = AE_NONE /\ ~HasText(e.hardlink) /\ ~HasText(e.symlink)
    THEN BOOLEAN ELSE { FALSE }

\* checkOpen(xsink, true), then the header (and payload) on the write coder
WriteOp(op, e, call) ==
    /\ life = "live"
    /\ checkOpen(TRUE) = "ok" => CallsLeft
    /\ IF checkOpen(TRUE) # "ok"
       THEN /\ ret' = Fail(op, "TAR-ERROR", checkOpen(TRUE))
            /\ UNCHANGED << write_archive, memory_buffer, output_stream, file, calls >>
       ELSE \E refused \in Refusals(e) :
              IF refused
              THEN /\ ret' = Fail(op, "TAR-ERROR", "failed to write entry")
                   /\ UNCHANGED << write_archive, memory_buffer, output_stream, file,
                                   calls >>
              ELSE /\ WriteEntry(e)
                   /\ ret' = Ok(op, "void")
                   /\ calls' = Append(calls, call)
    /\ UNCHANGED << path, safe, read_buffer, sessions, tarOutputStreams, tarInputStreams, life, mode, in_memory, closed, read_archive,
                    compression_method, format, input_stream, origin, existing_data >>

\* the options hash of add: opts = nullptr, or a hash in which the keys
\* "mode" and "modified" are absent (<< >>) or set (<< v >>); modified is a
\* date, in seconds since the epoch
NoOptions == [ mode |-> << >>, given |-> FALSE, modified |-> << >> ]
AddOptions ==
    { NoOptions } \cup
    { [ mode |-> m, given |-> TRUE, modified |-> t ] :
        m \in { << >>, << 384 >>, << 0 >> },
        t \in { << >>, << 7 >>, << 0 >>, << -5 >> } }

\* parseAddOptions: mode and modified_time as add() holds them afterwards
parseAddOptions(opts, mode_val, modified_time) ==
    [ mode |-> IF opts.given /\ opts.mode # << >> THEN opts.mode[1] ELSE mode_val,
      modified_time |-> IF opts.given /\ opts.modified # << >>
                        THEN opts.modified[1] ELSE modified_time ]

\* add: the header built from the arguments
addHeader(name, data, opts) ==
    LET o == parseAddOptions(opts, 420, 0)
    IN  Stamp(Entry(name, AE_IFREG, data, NULLSTR, NULLSTR), o.mode,
              IF o.modified_time > 0 THEN o.modified_time ELSE time_now)

add(name, data, opts) ==
    WriteOp("add", addHeader(name, data, opts), Call("add", name, Len(data), NULLSTR))

\* addText: the text re-encoded as UTF-8, then add
addText(name, text) ==
    WriteOp("addText", addHeader(name, text, NoOptions),
            Call("add", name, Len(text), NULLSTR))

addFile(name, node) ==
    /\ life = "live"
    /\ (checkOpen(TRUE) = "ok" /\ node.exists) => CallsLeft
    /\ IF checkOpen(TRUE) # "ok"
       THEN /\ ret' = Fail("addFile", "TAR-ERROR", checkOpen(TRUE))
            /\ UNCHANGED << write_archive, memory_buffer, output_stream, file, calls >>
       ELSE IF ~node.exists
       THEN /\ ret' = Fail("addFile", "TAR-ERROR", "failed to stat file")
            /\ UNCHANGED << write_archive, memory_buffer, output_stream, file, calls >>
       ELSE /\ WriteEntry(Stamp(Entry(name, AE_IFREG, node.data, NULLSTR, NULLSTR),
                             node.perm, node.mtime))
            /\ ret' = Ok("addFile", "void")
            /\ calls' = Append(calls, Call("add", name, Len(node.data), NULLSTR))
    /\ UNCHANGED << path, safe, read_buffer, sessions, tarOutputStreams, tarInputStreams, life, mode, in_memory, closed, read_archive,
                    compression_method, format, input_stream, origin, existing_data >>

addDirectory(name) ==
    WriteOp("addDirectory",
            Stamp(Entry(dirname(name), AE_IFDIR, << >>, NULLSTR, NULLSTR), 493, time_now),
            Call("addDirectory", name, 0, NULLSTR))

addSymlink(name, target) ==
    WriteOp("addSymlink",
            Stamp(Entry(name, AE_IFLNK, << >>, NULLSTR, target), 511, time_now),
            Call("addSymlink", name, 0, target))

addHardlink(name, target) ==
    WriteOp("addHardlink",
            Stamp(Entry(name, AE_NONE, << >>, target, NULLSTR), 0, time_now),
            Call("addHardlink", name, 0, target))

\* TarOutputStream(a, entry_name, mode, xsink): the object keeps the pointer
\* to the session's write coder and an empty buffer.  alive: not yet
\* destroyed.  count_sum, passed and headers are history: the sum of the
\* positive counts given to write(), the bytes those calls were given, and
\* the headers this object has written.
TarOutputStream(entry_name) ==
    [ closed |-> FALSE, alive |-> TRUE, entry_name |-> entry_name, buffer |-> << >>,
      count_sum |-> 0, passed |-> << >>, headers |-> 0, closed_by |-> "none" ]

\* openOutputStream: a TarOutputStream bound to write_archive; nothing is
\* written to the coder
openOutputStreamUpTo(name, most) ==
    /\ life = "live"
    /\ checkOpen(TRUE) = "ok" => Len(tarOutputStreams) < most
    /\ ret' = IF checkOpen(TRUE) # "ok"
              THEN Fail("openOutputStream", "TAR-ERROR", checkOpen(TRUE))
              ELSE Ok("openOutputStream", name)
    /\ tarOutputStreams' = IF checkOpen(TRUE) = "ok"
                           THEN Append(tarOutputStreams, TarOutputStream(name))
                           ELSE tarOutputStreams
    /\ UNCHANGED << path, safe, read_buffer, sessions, tarInputStreams, life, mode, in_memory, closed,
                    read_archive, write_archive, compression_method, format,
                    memory_buffer, input_stream, output_stream, file, origin,
                    existing_data, calls >>

openOutputStream(name) == openOutputStreamUpTo(name, MaxOutputStreams)

-----------------------------------------------------------------------------
(* TarOutputStream: the entry is buffered and written on close.            *)

\* what the caller passes to write(ptr, count): the count never exceeds the bytes
\* at ptr
WriteChunks == { Hello, OneByte }
WriteCounts == { -1, 0, 1, 2 }

\* a write that takes everything at ptr, whatever the count
memcpyAll(ptr, n) == ptr

\* buffer.resize(old_size + count); memcpy(buffer.data() + old_size, ptr, count)
memcpy(ptr, n) == SubSeq(ptr, 1, n)

\* a closed flag that is never seen
isClosedNever(s) == FALSE

\* the test `if (closed)` at the head of write() and close()
isClosed(s) == s.closed

\* the stream objects that exist
LiveOutputStreams == { i \in 1..Len(tarOutputStreams) : tarOutputStreams[i].alive }

\* TarOutputStream::write
TarOutputStream_write(i, ptr, n) ==
    LET s == tarOutputStreams[i]
    IN  /\ life # "crashed"
        /\ i \in LiveOutputStreams
        /\ n <= Len(ptr)
        /\ (~isClosed(s) /\ n > 0) => Len(s.buffer) + n <= MaxBuffer
        /\ IF isClosed(s)
           THEN /\ ret' = On(Fail("TarOutputStream::write", "STREAM-CLOSED-ERROR",
                               "stream is closed"), i)
                /\ UNCHANGED tarOutputStreams
           ELSE IF n <= 0
           THEN /\ ret' = On(Ok("TarOutputStream::write", "void"), i)
                /\ UNCHANGED tarOutputStreams
           ELSE /\ ret' = On(Ok("TarOutputStream::write", "void"), i)
                /\ tarOutputStreams' =
                     [ tarOutputStreams EXCEPT
                         ![i].buffer = @ \o memcpy(ptr, n),
                         ![i].count_sum = @ + n,
                         ![i].passed = @ \o [ k \in 1..n |-> ptr[k] ] ]
        /\ UNCHANGED << path, safe, read_buffer, sessions, tarInputStreams, life, mode, in_memory, closed,
                        read_archive, write_archive, compression_method, format,
                        memory_buffer, input_stream, output_stream, file, origin,
                        existing_data, calls >>

\* archive_write_header through a pointer to a coder the session has already
\* released: the call may end the process, may return an error, or may
\* return as if it had written
UseAfterFree == { "fault", "error", "silent" }

\* the body of TarOutputStream::close, for stream i; `gone` says whether the
\* object is being destroyed; `op` names the caller
TarOutputStream_closeBody(i, gone, op) ==
    LET s == tarOutputStreams[i]
        e == Stamp(Entry(s.entry_name, AE_IFREG, s.buffer, NULLSTR, NULLSTR),
                   420, time_now)
        left(t) == [ t EXCEPT !.alive = ~gone ]
    IN  IF isClosed(s)
        THEN /\ tarOutputStreams' = [ tarOutputStreams EXCEPT ![i] = left(s) ]
             /\ ret' = On(Ok(op, "void"), i)
             /\ UNCHANGED << life, write_archive, memory_buffer, output_stream, file >>
        ELSE IF write_archive.h = "open"
        THEN /\ WriteEntry(e)
             /\ tarOutputStreams' =
                  [ tarOutputStreams EXCEPT
                      ![i] = left([ s EXCEPT !.closed = TRUE, !.buffer = << >>,
                                             !.headers = @ + 1, !.closed_by = op ]) ]
             /\ ret' = On(Ok(op, "void"), i)
             /\ UNCHANGED life
        ELSE \E outcome \in UseAfterFree :
               /\ life' = IF outcome = "fault" THEN "crashed" ELSE life
               /\ tarOutputStreams' =
                    [ tarOutputStreams EXCEPT
                        ![i] = left([ s EXCEPT !.closed = TRUE, !.closed_by = op,
                                               !.buffer = IF outcome = "silent"
                                                          THEN << >> ELSE @ ]) ]
               /\ ret' = IF outcome = "error" /\ ~gone
                         THEN On(Fail(op, "TAR-ERROR", "failed to write entry header"), i)
                         ELSE On(Ok(op, "void"), i)
               /\ UNCHANGED << write_archive, memory_buffer, output_stream, file >>

\* TarOutputStream::close
TarOutputStream_close(i) ==
    /\ life # "crashed"
    /\ i \in LiveOutputStreams
    /\ TarOutputStream_closeBody(i, FALSE, "TarOutputStream::close")
    /\ UNCHANGED << path, safe, read_buffer, sessions, tarInputStreams, mode, in_memory, closed, read_archive,
                    compression_method, format, input_stream, origin, existing_data,
                    calls >>

\* ~TarOutputStream: close() on a sink of its own unless already closed
TarOutputStream_destroy(i) ==
    /\ life # "crashed"
    /\ i \in LiveOutputStreams
    /\ TarOutputStream_closeBody(i, TRUE, "~TarOutputStream")
    /\ UNCHANGED << path, safe, read_buffer, sessions, tarInputStreams, mode, in_memory, closed, read_archive,
                    compression_method, format, input_stream, origin, existing_data,
                    calls >>

-----------------------------------------------------------------------------
(* TarInputStream: the payload of one entry, read from the session's coder. *)

\* the limits a caller passes to read()
ReadLimits == { 0, 1, 2, 6 }

\* the stream objects that exist
LiveInputStreams == { i \in 1..Len(tarInputStreams) : tarInputStreams[i].alive }

\* reading the backing of a file or stream session can fail under the coder;
\* a blob in memory is always there
ReadFaults(s) ==
    IF in_memory \/ s.archive.faults >= MaxReadFaults THEN { FALSE } ELSE BOOLEAN

\* a coder that hands out a byte it has handed out before
archive_read_data_again(s, limit) ==
    { [ r |-> Min(limit, Len(s.entry.data)), fault |-> FALSE,
        bytes |-> SubSeq(s.entry.data, 1, Min(limit, Len(s.entry.data))) ] }

\* archive_read_data(archive, buf, limit) for limit > 0, through the pointer
\* stream s keeps: the outcomes.  r: the value returned, bytes: what is left
\* in buf, fault: the process ends.  A coder that is still held returns the
\* next min(limit, rest) payload bytes, or fails; a released coder may end
\* the process, report an error, or return nothing or junk.
archive_read_data(s, limit) ==
    IF s.archive.h = "open"
    THEN LET rest == Len(s.entry.data) - s.archive.off
             r == Min(limit, rest)
         IN  { [ r |-> r, fault |-> FALSE,
                 bytes |-> SubSeq(s.entry.data, s.archive.off + 1, s.archive.off + r) ] }
               \cup { [ r |-> -1, fault |-> FALSE, bytes |-> << >> ] :
                         f \in ReadFaults(s) \ { FALSE } }
    ELSE { [ r |-> -1, fault |-> TRUE, bytes |-> << >> ],
           [ r |-> -1, fault |-> FALSE, bytes |-> << >> ],
           [ r |-> 0, fault |-> FALSE, bytes |-> << >> ],
           [ r |-> limit, fault |-> FALSE, bytes |-> [ k \in 1..limit |-> "?" ] ] }

\* the coder after it has returned r; what a released coder holds is unknown
Advance(s, r) ==
    IF s.archive.h # "open" THEN s
    ELSE IF r < 0 THEN [ s EXCEPT !.archive.faults = @ + 1 ]
    ELSE [ s EXCEPT !.archive.off = @ + r ]

\* a read() that does not hand out the peeked byte
TakePeekedNever(s, limit) == << >>

\* "Return peeked byte first"
TakePeeked(s, limit) == IF s.has_peek /\ limit > 0 THEN << s.peek_byte >> ELSE << >>

\* a read() that hands out the peeked byte and leaves the slot occupied
clearPeekNever(s, first) == s

\* `has_peek = false` once the peeked byte is in the caller's buffer
clearPeek(s, first) == IF first # << >> THEN [ s EXCEPT !.has_peek = FALSE ] ELSE s

\* TarInputStream::read
TarInputStream_read(i, limit) ==
    LET s == tarInputStreams[i]
        op == "TarInputStream::read"
        first == TakePeeked(s, limit)
        s1 == clearPeek(s, first)
        rest == limit - Len(first)
        done(t, buf) ==
            /\ tarInputStreams' =
                 [ tarInputStreams EXCEPT
                     ![i] = [ t EXCEPT !.bytes_read = @ + Len(buf),
                                       !.delivered = @ \o buf ] ]
            /\ ret' = On(Ok(op, [ n |-> Len(buf), limit |-> limit, buf |-> buf ]), i)
            /\ UNCHANGED life
    IN  /\ life # "crashed"
        /\ i \in LiveInputStreams
        /\ IF s.closed
           THEN /\ ret' = On(Fail(op, "STREAM-CLOSED-ERROR", "stream is closed"), i)
                /\ UNCHANGED << tarInputStreams, life >>
           ELSE IF s.bytes_read >= s.entry_size
           THEN /\ ret' = On(Ok(op, [ n |-> 0, limit |-> limit, buf |-> << >> ]), i)
                /\ UNCHANGED << tarInputStreams, life >>
           ELSE IF rest > 0
           THEN \E res \in archive_read_data(s1, rest) :
                  IF res.fault
                  THEN /\ life' = "crashed"
                       /\ tarInputStreams' = [ tarInputStreams EXCEPT ![i] = s1 ]
                       /\ ret' = NoRet
                  ELSE IF res.r < 0
                  THEN /\ tarInputStreams' = [ tarInputStreams EXCEPT ![i] = Advance(s1, res.r) ]
                       /\ ret' = On(Fail(op, "TAR-READ-ERROR", "failed to read data"), i)
                       /\ UNCHANGED life
                  ELSE done(Advance(s1, res.r), first \o res.bytes)
           ELSE done(s1, first)
        /\ UNCHANGED << path, safe, read_buffer, sessions, tarOutputStreams, mode, in_memory, closed,
                        read_archive, write_archive, compression_method, format,
                        memory_buffer, input_stream, output_stream, file, origin,
                        existing_data, calls >>

\* TarInputStream::peek
TarInputStream_peek(i) ==
    LET s == tarInputStreams[i]
        op == "TarInputStream::peek"
        returns(b) == ret' = On(Ok(op, b), i)
    IN  /\ life # "crashed"
        /\ i \in LiveInputStreams
        /\ IF s.closed
           THEN /\ ret' = On(Fail(op, "STREAM-CLOSED-ERROR", "stream is closed"), i)
                /\ UNCHANGED << tarInputStreams, life >>
           ELSE IF s.has_peek
           THEN /\ returns(s.peek_byte)
                /\ UNCHANGED << tarInputStreams, life >>
           ELSE IF s.bytes_read >= s.entry_size
           THEN /\ returns(NoByte)
                /\ UNCHANGED << tarInputStreams, life >>
           ELSE \E res \in archive_read_data(s, 1) :
                  IF res.fault
                  THEN /\ life' = "crashed"
                       /\ ret' = NoRet
                       /\ UNCHANGED tarInputStreams
                  ELSE IF res.r < 0
                  THEN /\ ret' = On(Fail(op, "TAR-READ-ERROR", "failed to peek data"), i)
                       /\ tarInputStreams' = [ tarInputStreams EXCEPT ![i] = Advance(s, res.r) ]
                       /\ UNCHANGED life
                  ELSE IF res.r = 0
                  THEN /\ returns(NoByte)
                       /\ UNCHANGED << tarInputStreams, life >>
                  ELSE /\ returns(res.bytes[1])
                       /\ tarInputStreams' =
                            [ tarInputStreams EXCEPT
                                ![i] = [ Advance(s, 1) EXCEPT !.peek_byte = res.bytes[1],
                                                              !.has_peek = TRUE ] ]
                       /\ UNCHANGED life
        /\ UNCHANGED << path, safe, read_buffer, sessions, tarOutputStreams, mode, in_memory, closed,
                        read_archive, write_archive, compression_method, format,
                        memory_buffer, input_stream, output_stream, file, origin,
                        existing_data, calls >>

\* the switch of getEntryInfo on the filetype
StreamTypeOf(filetype) ==
    CASE filetype = AE_IFREG -> "file"
      [] filetype = AE_IFDIR -> "directory"
      [] filetype = AE_IFLNK -> "symlink"
      [] OTHER -> "unknown"

\* the hash getEntryInfo builds from pathname, entry_size, mode and filetype
StreamEntryInfo(pathname, size, entry_mode, filetype) ==
    [ mode |-> entry_mode,
      size |-> size,
      name |-> pathname,
      type |-> StreamTypeOf(filetype),
      is_directory |-> filetype = AE_IFDIR,
      is_symlink |-> filetype = AE_IFLNK ]

\* what getEntryInfo can build through the entry pointer of stream s.  The
\* entry belongs to the read coder: while the coder is held it is the entry
\* the stream was opened on; after the coder is released the memory may
\* still hold it or hold anything else.
getEntryInfo_outcomes(s) ==
    LET intact == StreamEntryInfo(s.entry.pathname, s.entry_size,
                                  archive_entry_mode(s.entry), s.entry.filetype)
    IN  IF s.archive.h = "open" THEN { intact }
        ELSE { intact }
               \cup { StreamEntryInfo(<< "?" >>, s.entry_size, << ft, 0 >>, ft) :
                         ft \in { AE_IFREG, AE_IFDIR, AE_IFLNK, AE_NONE } }

\* TarInputStream::getEntryInfo
TarInputStream_getEntryInfo(i) ==
    LET s == tarInputStreams[i]
        op == "TarInputStream::getEntryInfo"
    IN  /\ life # "crashed"
        /\ i \in LiveInputStreams
        /\ \/ /\ ret' \in { On(Ok(op, info), i) : info \in getEntryInfo_outcomes(s) }
              /\ UNCHANGED life
           \/ /\ s.archive.h # "open"
              /\ life' = "crashed"
              /\ ret' = NoRet
        /\ UNCHANGED << path, safe, read_buffer, sessions, tarOutputStreams, tarInputStreams,
                        mode, in_memory, closed,
                        read_archive, write_archive, compression_method, format,
                        memory_buffer, input_stream, output_stream, file, origin,
                        existing_data, calls >>

\* ~TarInputStream
TarInputStream_destroy(i) ==
    /\ life # "crashed"
    /\ i \in LiveInputStreams
    /\ tarInputStreams' = [ tarInputStreams EXCEPT ![i].closed = TRUE, ![i].alive = FALSE ]
    /\ ret' = NoRet
    /\ UNCHANGED << path, safe, read_buffer, sessions, tarOutputStreams, life, mode, in_memory, closed,
                    read_archive, write_archive, compression_method, format,
                    memory_buffer, input_stream, output_stream, file, origin,
                    existing_data, calls >>

-----------------------------------------------------------------------------
(* The session: initial states and next-state relation.                    *)

Init ==
    /\ path = << >>
    /\ safe = "unset"
    /\ life = "none"
    /\ mode = TAR_MODE_READ
    /\ in_memory = FALSE
    /\ closed = FALSE
    /\ read_archive = "null"
    /\ write_archive = NullWriter
    /\ compression_method = TAR_CM_NONE
    /\ format = TAR_FORMAT_PAX
    /\ memory_buffer = EmptyBytes
    /\ input_stream = NoInput
    /\ output_stream = NoOutput
    /\ file \in { NoFile } \cup { FileOf(b) : b \in SrcArchives }
    /\ origin = "none"
    /\ existing_data = NoFile
    /\ calls = << >>
    /\ tarOutputStreams = << >>
    /\ tarInputStreams = << >>
    /\ read_buffer = NoBuffer
    /\ sessions = NoSessions
    /\ ret = NoRet

Next ==
    \/ NewFileRead
    \/ \E cfg \in WriteConfigs : NewFileWrite(cfg)
    \/ \E cfg \in WriteConfigs : NewFileAppend(cfg)
    \/ NewMemoryReadSrc
    \/ NewMemoryReadBack
    \/ NewFileReadBack
    \/ \E cfg \in WriteConfigs : NewMemoryWrite(cfg)
    \/ NewStreamRead
    \/ \E cfg \in WriteConfigs : NewStreamWrite(cfg)
    \/ close
    \/ Destroy
    \/ toData
    \/ entries
    \/ count
    \/ \E name \in LookupNames : hasEntry(name)
    \/ \E name \in LookupNames : getEntry(name)
    \/ \E name \in LookupNames : read(name)
    \/ \E name \in LookupNames : readText(name)
    \/ \E name \in LookupNames : extractTo(name)
    \/ \E name \in LookupNames : openInputStream(name)
    \/ extractAll
    \/ \E name \in AddNames, data \in AddData : add(name, data, NoOptions)
    \/ \E name \in AddNames, text \in AddData : addText(name, text)
    \/ \E name \in AddNames, node \in FsNodes : addFile(name, node)
    \/ \E name \in DirNames : addDirectory(name)
    \/ \E name \in LinkNames, target \in LinkTargets : addSymlink(name, target)
    \/ \E name \in LinkNames, target \in LinkTargets : addHardlink(name, target)
    \/ \E name \in AddNames : openOutputStream(name)

Spec == Init /\ [][Next]_vars

-----------------------------------------------------------------------------
(* Append sessions on their own: openAppend over every archive file, the   *)
(* operations of the session, and a read session over the file it leaves. *)

NextAppend ==
    \/ \E cfg \in WriteConfigs : NewFileAppendAll(cfg)
    \/ NewFileReadBack
    \/ close
    \/ Destroy
    \/ entries
    \/ count
    \/ \E name \in LookupNames : hasEntry(name)
    \/ \E name \in LookupNames : getEntry(name)
    \/ \E name \in LookupNames : read(name)
    \/ \E name \in LookupNames : extractTo(name)
    \/ \E name \in LookupNames : openInputStream(name)
    \/ extractAll
    \/ \E name \in AddNames, data \in AddData : add(name, data, NoOptions)
    \/ \E name \in DirNames : addDirectory(name)
    \/ \E name \in LinkNames, target \in LinkTargets : addSymlink(name, target)
    \/ \E name \in LinkNames, target \in LinkTargets : addHardlink(name, target)
    \/ \E name \in AddNames : openOutputStream(name)

SpecAppend == Init /\ [][NextAppend]_vars

-----------------------------------------------------------------------------
(* The bootstrap of an append session, with the calls that can fail under  *)
(* it, and what the session and the path hold afterwards.                  *)

NextBootstrap ==
    \/ \E cfg \in WriteConfigs : NewFileAppendAll(cfg)
    \/ \E cfg \in WriteConfigs, fault \in BootstrapFaults : OpenAppendFault(cfg, fault)
    \/ \E name \in AddNames, data \in AddData : add(name, data, NoOptions)
    \/ close
    \/ NewFileReadBack
    \/ entries

SpecBootstrap == Init /\ [][NextBootstrap]_vars

-----------------------------------------------------------------------------
(* Walks under a read coder that can fail: a read session over an archive  *)
(* file, and the bootstrap of an append session.                           *)

NextWalk ==
    \/ NewFileRead
    \/ \E op \in { "entries", "count" }, rf \in ReadCoderFaults \cup { NoReadFault } :
          QueryOpOn(op, << >>, rf)
    \/ \E op \in { "hasEntry", "getEntry", "read", "extractTo" }, name \in LookupNames,
          rf \in ReadCoderFaults \cup { NoReadFault } :
          QueryOpOn(op, name, rf)
    \/ \E rf \in ReadCoderFaults \cup { NoReadFault } : extractAllOn(rf)
    \/ \E cfg \in WriteConfigs, fault \in BootstrapFaults : OpenAppendFault(cfg, fault)
    \/ close

SpecWalk == Init /\ [][NextWalk]_vars

-----------------------------------------------------------------------------
(* Output streams: a write session, the streams opened on it and add(),    *)
(* close(), toData() and the destructor of the session in between.         *)

NextOut ==
    \/ \E cfg \in WriteConfigs : NewMemoryWrite(cfg)
    \/ \E cfg \in WriteConfigs : NewStreamWrite(cfg)
    \/ \E name \in AddNames : openOutputStream(name)
    \/ \E i \in 1..MaxOutputStreams, ptr \in WriteChunks, n \in WriteCounts :
          TarOutputStream_write(i, ptr, n)
    \/ \E i \in 1..MaxOutputStreams : TarOutputStream_close(i)
    \/ \E i \in 1..MaxOutputStreams : TarOutputStream_destroy(i)
    \/ \E name \in AddNames, data \in AddData : add(name, data, NoOptions)
    \/ close
    \/ toData
    \/ Destroy

InitOut == Init /\ ~file.exists

SpecOut == InitOut /\ [][NextOut]_vars

-----------------------------------------------------------------------------
(* Several output streams open at once on one write session, with add()    *)
(* and the session's close() in between.                                   *)

\* the entry names the streams are opened on
StreamNames == { N_atxt, N_a }

NextInterleaved ==
    \/ \E cfg \in WriteConfigs : NewMemoryWrite(cfg)
    \/ \E name \in StreamNames : openOutputStreamUpTo(name, MaxInterleaved)
    \/ \E i \in 1..MaxInterleaved : TarOutputStream_write(i, OneByte, 1)
    \/ \E i \in 1..MaxInterleaved : TarOutputStream_close(i)
    \/ \E i \in 1..MaxInterleaved : TarOutputStream_destroy(i)
    \/ \E name \in AddNames : add(name, Hello, NoOptions)
    \/ close

SpecInterleaved == InitOut /\ [][NextInterleaved]_vars

-----------------------------------------------------------------------------
(* Input streams: a read session over an archive file, the streams opened  *)
(* on it, and the session operations that release or replace its coder.   *)

NextIn ==
    \/ NewFileRead
    \/ \E name \in LookupNames : openInputStream(name)
    \/ \E i \in 1..MaxInputStreams, limit \in ReadLimits : TarInputStream_read(i, limit)
    \/ \E i \in 1..MaxInputStreams : TarInputStream_peek(i)
    \/ \E i \in 1..MaxInputStreams : TarInputStream_destroy(i)
    \/ \E name \in LookupNames : hasEntry(name)
    \/ close
    \/ Destroy

\* the archive file holds plain regular files only
InitIn ==
    /\ Init
    /\ file.exists
    /\ \A k \in 1..Len(file.ents) :
         file.ents[k].filetype = AE_IFREG /\ file.ents[k].hardlink = NULLSTR

SpecIn == InitIn /\ [][NextIn]_vars

-----------------------------------------------------------------------------
(* Entry metadata on its own: a read session over an archive file of one   *)
(* entry, for every filetype flag with and without link targets.           *)

FileTypes ==
    { AE_IFREG, AE_IFDIR, AE_IFLNK, AE_IFCHR, AE_IFBLK, AE_IFIFO, AE_IFSOCK, AE_NONE }

InfoEntries ==
    { Entry(N_a, ft, NoBytes, hl, sl) :
        ft \in FileTypes, hl \in { NULLSTR, << >>, N_b }, sl \in { NULLSTR, N_b } }

InitInfo ==
    /\ path = << >>
    /\ safe = "unset"
    /\ life = "none"
    /\ mode = TAR_MODE_READ
    /\ in_memory = FALSE
    /\ closed = FALSE
    /\ read_archive = "null"
    /\ write_archive = NullWriter
    /\ compression_method = TAR_CM_NONE
    /\ format = TAR_FORMAT_PAX
    /\ memory_buffer = EmptyBytes
    /\ input_stream = NoInput
    /\ output_stream = NoOutput
    /\ file \in { FileOf(Bytes(<< e >>, 1)) : e \in InfoEntries }
    /\ origin = "none"
    /\ existing_data = NoFile
    /\ calls = << >>
    /\ tarOutputStreams = << >>
    /\ tarInputStreams = << >>
    /\ read_buffer = NoBuffer
    /\ sessions = NoSessions
    /\ ret = NoRet

NextInfo ==
    \/ NewFileRead
    \/ entries
    \/ \E name \in LookupNames : getEntry(name)

SpecInfo == InitInfo /\ [][NextInfo]_vars

\* the same archives, with an input stream opened on the entry
NextStreamInfo ==
    \/ NewFileRead
    \/ \E name \in LookupNames : openInputStream(name)
    \/ \E i \in 1..MaxInputStreams : TarInputStream_getEntryInfo(i)
    \/ \E name \in LookupNames : getEntry(name)

SpecStreamInfo == InitInfo /\ [][NextStreamInfo]_vars

-----------------------------------------------------------------------------
(* Compression detection on its own: the file constructor in each mode,    *)
(* over file names with and without the known suffixes and over every      *)
(* method argument.                                                        *)

\* the file names: each suffix after "a" and on its own, and near misses
Filenames ==
    { << "a", ".", "t", "a", "r", ".", "g", "z" >>,
      << ".", "t", "a", "r", ".", "g", "z" >>,
      << "a", ".", "t", "g", "z" >>,
      << ".", "t", "g", "z" >>,
      << "a", ".", "t", "a", "r", ".", "b", "z", "2" >>,
      << ".", "t", "a", "r", ".", "b", "z", "2" >>,
      << "a", ".", "t", "b", "z", "2" >>,
      << ".", "t", "b", "z", "2" >>,
      << "a", ".", "t", "b", "z" >>,
      << ".", "t", "b", "z" >>,
      << "a", ".", "t", "a", "r", ".", "x", "z" >>,
      << ".", "t", "a", "r", ".", "x", "z" >>,
      << "a", ".", "t", "x", "z" >>,
      << ".", "t", "x", "z" >>,
      << "a", ".", "t", "a", "r", ".", "z", "s", "t" >>,
      << ".", "t", "a", "r", ".", "z", "s", "t" >>,
      << "a", ".", "t", "a", "r", ".", "z", "s", "t", "d" >>,
      << ".", "t", "a", "r", ".", "z", "s", "t", "d" >>,
      << "a", ".", "t", "a", "r", ".", "l", "z", "4" >>,
      << ".", "t", "a", "r", ".", "l", "z", "4" >>,
      << "a", ".", "t", "a", "r" >>,
      << ".", "t", "a", "r" >>,
      << "a", ".", "T", "A", "R", ".", "G", "Z" >>,
      << "a", ".", "T", "g", "z" >>,
      << "a", ".", "t", "a", "r", ".", "g", "z", ".", "b", "a", "k" >>,
      << "a", ".", "t", "g", "z", ".", "t", "a", "r" >>,
      << "a", "t", "a", "r", ".", "g", "z" >>,
      << "a", ".", "g", "z" >>,
      << "a", ".", "b", "z", "2" >>,
      << "a", ".", "z", "s", "t" >>,
      << "a", ".", "t", "a", "r", ".", "z", "s" >>,
      << "a", ".", "t", "a", "r", ".", "l", "z" >>,
      << "a", ".", "t", "a", "r", ".", "g", "z", "z" >>,
      << "a" >>,
      << >>,
      << "a", ".", "z", "i", "p" >>,
      << "t", "g", "z" >>,
      << ".", "t", "a", "r", ".", "g", "z", ".", "t", "a", "r", ".", "x", "z" >>,
      << "a", ".", "t", "b", "z", "2", ".", "t", "b", "z" >>,
      << "a", ".", "t", "a", "r", ".", "b", "z" >> }

\* (compression method argument, dialect, coder output per entry)
DetectConfigs ==
    { << cm, TAR_FORMAT_PAX, FALSE >> :
        cm \in { TAR_CM_UNSET, TAR_CM_NONE, TAR_CM_GZIP, TAR_CM_BZIP2, TAR_CM_XZ,
                 TAR_CM_ZSTD, TAR_CM_LZ4, TAR_CM_INVALID } }

InitDetect ==
    /\ path \in Filenames
    /\ safe = "unset"
    /\ life = "none"
    /\ mode = TAR_MODE_READ
    /\ in_memory = FALSE
    /\ closed = FALSE
    /\ read_archive = "null"
    /\ write_archive = NullWriter
    /\ compression_method = TAR_CM_NONE
    /\ format = TAR_FORMAT_PAX
    /\ memory_buffer = EmptyBytes
    /\ input_stream = NoInput
    /\ output_stream = NoOutput
    /\ file \in { NoFile, FileOf(Bytes(<< >>, 1)) }
    /\ origin = "none"
    /\ existing_data = NoFile
    /\ calls = << >>
    /\ tarOutputStreams = << >>
    /\ tarInputStreams = << >>
    /\ read_buffer = NoBuffer
    /\ sessions = NoSessions
    /\ ret = NoRet

NextDetect ==
    \/ NewFileRead
    \/ \E cfg \in DetectConfigs : NewFileWrite(cfg)
    \/ \E cfg \in DetectConfigs : NewFileAppendAll(cfg)

SpecDetect == InitDetect /\ [][NextDetect]_vars

-----------------------------------------------------------------------------
(* add() on its own: a new in-memory archive in each configuration and     *)
(* add() with every option hash, a short and an over-long name.            *)

NextAdd ==
    \/ \E cfg \in WriteConfigs : NewMemoryWrite(cfg)
    \/ \E name \in AddNames \cup { N_long }, data \in AddData, opts \in AddOptions :
          add(name, data, opts)
    \/ close

SpecAdd == InitOut /\ [][NextAdd]_vars

-----------------------------------------------------------------------------
(* Write sessions of every backing, constructed with each compression      *)
(* method, and the operations that add to them.                            *)

FilterConfigs ==
    { << cm, TAR_FORMAT_PAX, direct >> :
        cm \in { TAR_CM_NONE, TAR_CM_GZIP, TAR_CM_BZIP2, TAR_CM_XZ, TAR_CM_ZSTD,
                 TAR_CM_LZ4, TAR_CM_INVALID },
        direct \in BOOLEAN }

NextFilter ==
    \/ \E cfg \in FilterConfigs : NewFileWrite(cfg)
    \/ \E cfg \in FilterConfigs : NewMemoryWrite(cfg)
    \/ \E cfg \in FilterConfigs : NewStreamWrite(cfg)
    \/ \E name \in AddNames, data \in AddData : add(name, data, NoOptions)
    \/ \E name \in AddNames, text \in AddData : addText(name, text)
    \/ \E name \in AddNames, node \in FsNodes : addFile(name, node)
    \/ \E name \in DirNames : addDirectory(name)
    \/ \E name \in LinkNames, target \in LinkTargets : addSymlink(name, target)
    \/ \E name \in LinkNames, target \in LinkTargets : addHardlink(name, target)
    \/ close

SpecFilter == InitOut /\ [][NextFilter]_vars

-----------------------------------------------------------------------------
(* The path gate on its own: isPathSafe applied to every bounded path.     *)

InitPath ==
    /\ path \in Paths
    /\ safe = "unset"
    /\ life = "none"
    /\ mode = TAR_MODE_READ
    /\ in_memory = FALSE
    /\ closed = FALSE
    /\ read_archive = "null"
    /\ write_archive = NullWriter
    /\ compression_method = TAR_CM_NONE
    /\ format = TAR_FORMAT_PAX
    /\ memory_buffer = EmptyBytes
    /\ input_stream = NoInput
    /\ output_stream = NoOutput
    /\ file = NoFile
    /\ origin = "none"
    /\ existing_data = NoFile
    /\ calls = << >>
    /\ tarOutputStreams = << >>
    /\ tarInputStreams = << >>
    /\ read_buffer = NoBuffer
    /\ sessions = NoSessions
    /\ ret = NoRet

CallIsPathSafe ==
    /\ safe = "unset"
    /\ safe' = IF isPathSafe(path) THEN "safe" ELSE "unsafe"
    /\ UNCHANGED << path, read_buffer, sessions >>
    /\ UNCHANGED sessionVars

NextPath == CallIsPathSafe

SpecPath == InitPath /\ [][NextPath]_vars

-----------------------------------------------------------------------------
(* Two stream-backed read sessions of one thread.  Each has its own        *)
(* InputStream and its own read coder; stream_read_callback hands every    *)
(* coder the same thread_local read_buffer.                                *)

Sessions == 1..2

\* the bytes the InputStream given to a session delivers
StreamContents ==
    { [ k \in 1..MaxStreamLen |-> << c, k >> ] : c \in { "x", "y" } }

\* QoreTarFile(InputStream*): a session with its input_stream and read coder
StreamSession(data) ==
    [ life |-> "live", input_stream |-> [ data |-> data, pos |-> 0 ],
      client |-> NoClient, consumed |-> << >> ]

\* the bytes of `buffer` between from and from + n - 1
Window(buffer, from, n) == [ k \in 1..n |-> buffer[from + k - 1] ]

\* input_stream->read(read_buffer.get(), TAR_BUFFER_SIZE): the bytes read
streamRead(is) ==
    SubSeq(is.data, is.pos + 1, Min(Len(is.data), is.pos + TAR_BUFFER_SIZE))

\* a callback that returns a block of the session's own
storeOwn(buffer, got) == buffer

\* stream_read_callback stores the bytes read at the start of the one
\* read_buffer of the thread
store(buffer, got) ==
    [ k \in 1..TAR_BUFFER_SIZE |-> IF k <= Len(got) THEN got[k] ELSE buffer[k] ]

\* the unconsumed bytes as session i's coder will see them
Unconsumed(i, buffer) ==
    LET c == sessions[i].client
    IN  Window(IF c.inplace THEN buffer ELSE c.block, c.next, c.avail)

\* QoreTarFile(InputStream* input): session i is constructed over a stream
NewStreamSession(i, data) ==
    /\ sessions[i].life = "none"
    /\ sessions' = [ sessions EXCEPT ![i] = StreamSession(data) ]
    /\ UNCHANGED read_buffer

\* one call on session i, or on an input stream opened from it, makes its
\* coder take n bytes: from the block it still holds, or, when that is used
\* up, from a new block that stream_read_callback fetches
archive_read(i, n) ==
    LET s == sessions[i]
        c == s.client
    IN  /\ s.life = "live"
        /\ IF c.avail > 0
           THEN LET k == Min(n, c.avail)
                IN  /\ sessions' =
                         [ sessions EXCEPT
                             ![i].consumed = @ \o Window(Unconsumed(i, read_buffer), 1, k),
                             ![i].client.next = @ + k,
                             ![i].client.avail = @ - k ]
                    /\ UNCHANGED read_buffer
           ELSE LET got == streamRead(s.input_stream)
                    k == Min(n, Len(got))
                IN  /\ read_buffer' = store(read_buffer, got)
                    /\ \E inplace \in BOOLEAN :
                         sessions' =
                           [ sessions EXCEPT
                               ![i].input_stream.pos = @ + Len(got),
                               ![i].consumed = @ \o Window(got, 1, k),
                               ![i].client = [ next |-> 1 + k, avail |-> Len(got) - k,
                                               block |-> got, inplace |-> inplace ] ]

NextShare ==
    \/ \E i \in Sessions, data \in StreamContents :
          NewStreamSession(i, data) /\ UNCHANGED << path, safe >> /\ UNCHANGED sessionVars
    \/ \E i \in Sessions, n \in 1..TAR_BUFFER_SIZE :
          archive_read(i, n) /\ UNCHANGED << path, safe >> /\ UNCHANGED sessionVars

SpecShare == InitOut /\ [][NextShare]_vars

-----------------------------------------------------------------------------
(* Properties of the path gate, checked under SpecPath.                    *)

Separators == { "/", "\\" }

\* p holds ".." as a whole component: bounded on each side by a separator
\* or by an edge of the string
HasDotDotComponent(p) ==
    \E i \in 1..(Len(p) - 1) :
        /\ p[i] = "." /\ p[i + 1] = "."
        /\ (i = 1 \/ p[i - 1] \in Separators)
        /\ (i + 1 = Len(p) \/ p[i + 2] \in Separators)

\* the three rejection rules as the specification words them
RejectedByRule(p) ==
    \/ Len(p) >= 1 /\ p[1] = "/"
    \/ Len(p) >= 2 /\ p[1] \in (UpperCase \cup LowerCase) /\ p[2] = ":"
    \/ HasDotDotComponent(p)

\* C3: isPathSafe answers false exactly for the paths that begin with '/',
\* begin with a letter followed by ':', or hold a ".." component bounded by
\* '/', '\' or a string edge, and true for every other path; the examples
\* "/etc/passwd", "../../x", "a/../../b", "C:\x" are refused and "a/b/c",
\* "", "a..b", "a/..b" are accepted.
C3_isPathSafe_exact ==
    safe # "unset" =>
        /\ (safe = "unsafe") <=> RejectedByRule(path)
        /\ path \in { EtcPasswd, UpUpX, AUpUpB, DriveX } => safe = "unsafe"
        /\ path \in { ABC, << >>, ADotDotB, ASlashDotDotB } => safe = "safe"

\* C3 happens: the gate has refused "a/../../b", whose ".." is not at the start
C3_witness == safe = "unsafe" /\ path = AUpUpB

\* C4 as stated: every path whose first character is a separator, '/' or
\* '\', is refused by isPathSafe.
C4_leading_separator_refused ==
    (safe # "unset" /\ Len(path) >= 1 /\ path[1] \in Separators) => safe = "unsafe"

\* the gate has answered for a path that starts with a backslash
C4_witness == safe # "unset" /\ Len(path) >= 1 /\ path[1] = "\\"

-----------------------------------------------------------------------------
(* Properties of extractAll, checked under Spec.                           *)

\* the entry passes the three checks of the gate
PassesGate(e) ==
    /\ isPathSafe(e.pathname)
    /\ (e.hardlink # NULLSTR /\ e.hardlink # << >>) => isPathSafe(e.hardlink)
    /\ (e.symlink # NULLSTR /\ e.symlink # << >>) => isPathSafe(e.symlink)

\* the entries a file- or memory-backed session reads
StoredEnts == IF in_memory THEN memory_buffer.ents ELSE file.ents

\* position of the first stored entry that fails the gate, 0 if none does
FirstUnsafe(es) ==
    IF \E k \in 1..Len(es) : ~PassesGate(es[k])
    THEN CHOOSE k \in 1..Len(es) :
            ~PassesGate(es[k]) /\ \A j \in 1..(k - 1) : PassesGate(es[j])
    ELSE 0

\* C1: whatever the archive holds, extractAll hands a header to the disk
\* writer only after isPathSafe has accepted the entry path, every non-empty
\* hardlink target and every non-empty symlink target of that entry.
C1_gate_before_disk ==
    ret.op = "extractAll" =>
        /\ Len(ret.disk.log) <= Len(ret.disk.seen)
        /\ \A i \in 1..Len(ret.disk.log) :
              /\ ret.disk.log[i] = Rooted(ret.disk.seen[i])
              /\ PassesGate(ret.disk.seen[i])

\* C1 happens: a hardlink entry with a safe target went to the disk writer
\* and the entry after it did not
C1_witness ==
    /\ ret.op = "extractAll"
    /\ Len(ret.disk.log) = 1 /\ Len(ret.disk.seen) = 2
    /\ ret.disk.seen[1].hardlink = N_a
    /\ ~PassesGate(ret.disk.seen[2])

\* C2: extractAll stops at the first entry that fails the gate: it raises
\* TAR-SECURITY-ERROR (not TAR-ERROR) for that entry, hands neither it nor
\* any later entry to the disk writer, and what it extracted before stays
\* in the destination.
C2_stop_at_first_unsafe ==
    ret.op = "extractAll" =>
        /\ \A k \in 1..Len(ret.disk.seen) :
              ~PassesGate(ret.disk.seen[k]) =>
                 /\ k = Len(ret.disk.seen)
                 /\ ret.errs # << >>
                 /\ ret.errs[Len(ret.errs)].code = "TAR-SECURITY-ERROR"
                 /\ ret.errs[Len(ret.errs)].code # "TAR-ERROR"
                 /\ Len(ret.disk.log) = k - 1
                 /\ \A j \in 1..(k - 1) :
                       Rooted(ret.disk.seen[j]).pathname \in ret.disk.files
        /\ ( /\ ~input_stream.set /\ ~closed /\ mode = TAR_MODE_READ
             /\ FirstUnsafe(StoredEnts) > 0
             /\ \A n \in 1..Len(ret.errs) : ret.errs[n].code # "TAR-ERROR" )
           => ret.disk.seen = SubSeq(StoredEnts, 1, FirstUnsafe(StoredEnts))

\* C2 happens: the second entry of the archive was refused after the first
\* had been extracted
C2_witness ==
    /\ ret.op = "extractAll"
    /\ Len(ret.disk.seen) = 2
    /\ ret.disk.files = { Destination \o << "/" >> \o N_a }
    /\ Len(ret.errs) = 1 /\ ret.errs[1].code = "TAR-SECURITY-ERROR"

-----------------------------------------------------------------------------
(* Properties of the session lifecycle, checked under Spec.                *)

ReadOps ==
    { "entries", "count", "hasEntry", "getEntry", "read", "extractAll", "extractTo",
      "openInputStream" }

WriteOps ==
    { "add", "addText", "addFile", "addDirectory", "addSymlink", "addHardlink",
      "openOutputStream" }

\* the last operation raised an exception and returned nothing
Failed == ret.errs # << >> /\ ret.val = Null

\* the last operation raised TAR-ERROR and returned nothing
FailedTarError == Failed /\ ret.errs[1].code = "TAR-ERROR"

\* C5 as stated: once close() has returned, every later operation other
\* than close() (the queries, the add operations, extractAll, extractTo,
\* toData, openInputStream, openOutputStream) fails with an error and yields
\* no data.
C5_closed_rejects_everything ==
    (life = "live" /\ closed /\ ret.op \in (ReadOps \cup WriteOps \cup { "readText", "toData" }))
        => Failed

\* toData was called on a closed memory-backed session
C5_witness == life = "live" /\ closed /\ in_memory /\ ret.op = "toData"

\* C6 as stated: on an open session of any backing, a write operation on a
\* read-mode session and a read operation on a write-mode session both fail
\* with TAR-ERROR.
C6_wrong_mode_fails ==
    (life = "live" /\ ~closed) =>
        /\ (mode = TAR_MODE_READ /\ ret.op \in WriteOps) => FailedTarError
        /\ (mode = TAR_MODE_WRITE /\ ret.op \in ReadOps) => FailedTarError

\* a read operation was called on an open memory-backed write session
C6_witness ==
    /\ life = "live" /\ ~closed /\ in_memory /\ mode = TAR_MODE_WRITE
    /\ ret.op \in ReadOps

\* C7 as stated: after the constructor and after any sequence of operations
\* at most one of the read coder handle and the write coder handle is
\* non-null.
C7_one_coder_at_most ==
    life = "live" => (read_archive = "null" \/ write_archive.h = "null")

\* a query has run on a session whose write coder is open
C7_witness == life = "live" /\ write_archive.h # "null" /\ ret.op \in ReadOps

\* C8 as stated: on an open read session of any backing a query does not
\* depend on the queries made before it: entries() called twice in a row
\* returns the same sequence, and count() is the same before and after a
\* read().
C8_queries_independent ==
    [][ ( /\ life = "live" /\ life' = "live" /\ mode = TAR_MODE_READ
          /\ checkOpen(FALSE) = "ok" /\ origin' = origin
          /\ ret.errs = << >> /\ ret'.errs = << >>
          /\ ret.op = "entries" /\ ret'.op = "entries" )
        => ret'.val = ret.val ]_vars

\* entries() has returned on an open stream-backed read session
C8_witness ==
    /\ life = "live" /\ ~closed /\ mode = TAR_MODE_READ /\ input_stream.set
    /\ ret.op = "entries" /\ ret.errs = << >>

\* the entries an open read session was constructed over
SessionEnts ==
    IF in_memory THEN memory_buffer.ents
    ELSE IF input_stream.set THEN input_stream.data.ents
    ELSE file.ents

\* C10 as stated: read(name) returns exactly the payload of the first entry
\* whose path equals name (an empty buffer when its size is 0) and raises
\* TAR-ERROR "entry not found" when no entry matches; with the single entry
\* "a.txt" = "hello" it returns those 5 bytes.
C10_read_first_match ==
    ( /\ life = "live" /\ mode = TAR_MODE_READ /\ checkOpen(FALSE) = "ok"
      /\ ret.op = "read" )
    => LET j == FirstMatch(SessionEnts, ret.arg)
       IN  IF j = 0
           THEN /\ FailedTarError
                /\ ret.errs[1].msg = "entry not found"
           ELSE /\ ret.errs = << >>
                /\ ret.val = Val(SessionEnts[j].data)

\* read(name) was called on an open stream-backed read session that holds
\* an entry of that name
C10_witness ==
    /\ life = "live" /\ mode = TAR_MODE_READ /\ checkOpen(FALSE) = "ok"
    /\ input_stream.set
    /\ ret.op = "read"
    /\ FirstMatch(SessionEnts, ret.arg) > 0

-----------------------------------------------------------------------------
(* The round trip through toData, checked under Spec.                      *)

\* the record a call of the write session is expected to come back as
ExpectedName(c) ==
    IF c.op = "addDirectory" /\ (c.name = << >> \/ c.name[Len(c.name)] # "/")
    THEN c.name \o << "/" >>
    ELSE c.name

ExpectedType(c) ==
    CASE c.op = "add" -> "file"
      [] c.op = "addDirectory" -> "directory"
      [] c.op = "addSymlink" -> "symlink"
      [] c.op = "addHardlink" -> "hardlink"

\* entries() has returned on an open read session made from what toData() gave
ReadBack == life = "live" /\ ~closed /\ origin = "toData" /\ ret.op = "entries"

-----------------------------------------------------------------------------
(* Properties of append sessions, checked under SpecAppend.                *)

\* entries() has returned on an open read session over the file that an
\* append session left when it was closed
AppendedReadBack ==
    life = "live" /\ ~closed /\ origin = "appended" /\ ret.op = "entries"

\* C11: opening an existing archive of N entries for append, adding an
\* entry and closing leaves an archive that enumerates as the N original
\* entries, in their order, with their metadata and payload unchanged,
\* followed by the entry added (N + 1 entries).
C11_append_keeps_entries ==
    AppendedReadBack =>
        /\ ret.errs = << >>
        /\ Len(calls) >= 1 => file.fin = 1
        /\ Len(ret.val.v) = Len(existing_data.ents) + Len(calls)
        /\ Len(file.ents) = Len(existing_data.ents) + Len(calls)
        /\ \A i \in 1..Len(existing_data.ents) :
              /\ ret.val.v[i] = createEntryInfo(existing_data.ents[i])
              /\ file.ents[i].data = existing_data.ents[i].data
        /\ \A i \in 1..Len(calls) :
              /\ ret.val.v[Len(existing_data.ents) + i].name = ExpectedName(calls[i])
              /\ ret.val.v[Len(existing_data.ents) + i].size = calls[i].size

\* C11 happens: two different entries, the first with a payload, were
\* there, one was added, and the three were enumerated
C11_witness ==
    /\ AppendedReadBack
    /\ Len(existing_data.ents) = 2 /\ Len(calls) = 1
    /\ existing_data.ents[1].data = Hello
    /\ existing_data.ents[1] # existing_data.ents[2]
    /\ Len(ret.val.v) = 3

\* C12: a file-backed session constructed in append mode on a path that
\* does not exist is in the state a write-mode constructor on that path
\* leaves (mode write, a write coder open on the path, no read coder), so
\* that every later operation behaves as on the write-mode session.
C12_append_missing_is_write ==
    [][ \A cfg \in WriteConfigs :
          (~file.exists /\ NewFileAppendAll(cfg)) => NewFileWrite(cfg) ]_vars

\* C12 happens: the append constructor has returned on a missing path with
\* its write coder open
C12_witness ==
    /\ life = "live" /\ ret.op = "constructor" /\ ret.errs = << >>
    /\ ~existing_data.exists /\ file.exists
    /\ mode = TAR_MODE_WRITE /\ write_archive.h = "open" /\ read_archive = "null"

\* C13: after the append constructor has returned on an existing path the
\* read coder is released, add operations are accepted as on a write
\* session, and entries, count, hasEntry, getEntry, read, extractAll,
\* extractTo and openInputStream fail with TAR-ERROR.
C13_append_session_write_only ==
    (life = "live" /\ mode = TAR_MODE_APPEND /\ ~closed) =>
        /\ read_archive = "null"
        /\ ret.op \in ReadOps => FailedTarError
        /\ (ret.op \in WriteOps /\ write_archive.h # "null" /\ Failed)
              => ret.errs[1].msg \notin
                    { "archive is closed", "archive is not open for writing" }
        /\ (ret.op = "add" /\ write_archive.h # "null") => ~Failed

\* C13 happens: an add was accepted on an append session over an archive
\* that held an entry, and then a query was refused
C13_witness ==
    /\ life = "live" /\ mode = TAR_MODE_APPEND /\ ~closed
    /\ Len(existing_data.ents) >= 1 /\ Len(calls) = 1
    /\ ret.op = "entries" /\ FailedTarError

-----------------------------------------------------------------------------
(* Properties of construction, close and toData, checked under Spec.       *)

\* C14 as stated: when the open step of a constructor fails, the constructor
\* raises the error and leaves the session Closed: the lifecycle flag is
\* set, no coder handle is held, and every later operation but close() fails.
C14_failed_constructor_closed ==
    (life = "live" /\ ret.op = "constructor" /\ ret.errs # << >>) =>
        /\ closed
        /\ read_archive = "null"
        /\ write_archive.h = "null"

\* the constructor of an in-memory write session has raised
C14_witness ==
    /\ life = "live" /\ in_memory /\ mode = TAR_MODE_WRITE
    /\ ret.op = "constructor" /\ ret.errs # << >>

\* C15: over any sequence of toData(), close() and teardown on a session,
\* close() never raises, the write coder is finalized and released at most
\* once, so that no backing ever holds more than one footer, and a close()
\* on a closed session changes no state.
C15_close_once ==
    [][ /\ ret'.op = "close" => ret'.errs = << >>
        /\ memory_buffer'.fin <= 1
        /\ output_stream'.data.fin <= 1
        /\ file'.fin <= 1
        /\ (write_archive.h = "null" /\ ret'.op # "constructor")
              => write_archive'.h = "null"
        /\ (life = "live" /\ closed /\ ret'.op = "close")
              => UNCHANGED << life, mode, in_memory, closed, read_archive,
                              write_archive, compression_method, format,
                              memory_buffer, input_stream, output_stream, file >>
      ]_vars

\* C15 happens: an in-memory write session that held an entry was finalized
\* and closed, and has been torn down
C15_witness ==
    /\ life = "dead" /\ closed /\ in_memory /\ mode = TAR_MODE_WRITE
    /\ Len(memory_buffer.ents) >= 1 /\ memory_buffer.fin = 1
    /\ write_archive.h = "null"

\* C16 as stated: toData() succeeds only on a memory-backed write session;
\* on every other open session (file-backed, stream-backed, memory-backed
\* read session over a blob) it fails with TAR-ERROR and returns no bytes.
C16_toData_write_session_only ==
    ( /\ life = "live" /\ ~closed /\ ret.op = "toData"
      /\ ~(in_memory /\ mode = TAR_MODE_WRITE) )
    => FailedTarError

\* toData() was called on an open read session built from a blob
C16_witness ==
    /\ life = "live" /\ ~closed /\ ret.op = "toData"
    /\ in_memory /\ mode = TAR_MODE_READ /\ origin = "src"

-----------------------------------------------------------------------------
(* C17, C18: TarOutputStream.                                              *)

\* everything the session's write coder has been given, in order
Written ==
    (IF in_memory THEN memory_buffer.ents
     ELSE IF output_stream.set THEN output_stream.data.ents
     ELSE file.ents) \o write_archive.pending

\* stream i goes from open to closed in this step, by its own close()
ClosesNow(i) ==
    /\ i \in LiveOutputStreams
    /\ ~tarOutputStreams[i].closed
    /\ tarOutputStreams'[i].closed
    /\ ret'.op = "TarOutputStream::close"
    /\ ret'.stream = i

C18_one_header_per_stream ==
    [][ \A i \in 1..Len(tarOutputStreams) :
          /\ tarOutputStreams'[i].headers <= 1
          /\ (tarOutputStreams[i].closed /\ ret'.stream = i
                /\ ret'.op \in { "TarOutputStream::close", "~TarOutputStream" })
               => /\ ret'.errs = << >>
                  /\ tarOutputStreams'[i].buffer = tarOutputStreams[i].buffer
                  /\ tarOutputStreams'[i].headers = tarOutputStreams[i].headers
                  /\ tarOutputStreams'[i].closed
                  /\ Written' = Written
                  /\ write_archive' = write_archive
          /\ (tarOutputStreams[i].closed /\ ret'.stream = i
                /\ ret'.op = "TarOutputStream::write")
               => /\ ret'.errs = << Exc("STREAM-CLOSED-ERROR", "stream is closed") >>
                  /\ tarOutputStreams' = tarOutputStreams
                  /\ Written' = Written
                  /\ write_archive' = write_archive ]_vars

\* write() refused on a stream whose close() wrote its one header
C18_witness ==
    /\ ret.op = "TarOutputStream::write"
    /\ ret.errs = << Exc("STREAM-CLOSED-ERROR", "stream is closed") >>
    /\ \E i \in LiveOutputStreams :
         /\ tarOutputStreams[i].closed
         /\ tarOutputStreams[i].headers = 1
         /\ tarOutputStreams[i].passed # << >>
         /\ tarOutputStreams[i].buffer = << >>

-----------------------------------------------------------------------------
(* C19, C20: TarInputStream.                                               *)

\* stream i reads from a coder the session still holds and that has not failed
Sound(i) ==
    /\ i \in LiveInputStreams
    /\ tarInputStreams[i].archive.h = "open"
    /\ tarInputStreams[i].archive.faults = 0

\* the last call was `op` on stream i and raised nothing
Returned(op, i) ==
    /\ ret'.op = op
    /\ ret'.errs = << >>
    /\ ret'.stream = i

\* the payload byte after the ones read() has delivered, NoByte at the end
NextByte(s) ==
    IF Len(s.delivered) < Len(s.entry.data)
    THEN s.entry.data[Len(s.delivered) + 1] ELSE NoByte

\* C19: peek() returns the next undelivered byte and leaves the position as
\* it is; peeks in a row return the same byte and pull at most one byte from
\* the coder between them; the next read() with limit >= 1 returns that byte
\* first.
C19_peek_then_read ==
    [][ \A i \in 1..Len(tarInputStreams) :
          /\ (Sound(i) /\ Returned("TarInputStream::peek", i))
               => /\ ret'.val.v = NextByte(tarInputStreams[i])
                  /\ tarInputStreams'[i].bytes_read = tarInputStreams[i].bytes_read
                  /\ tarInputStreams'[i].delivered = tarInputStreams[i].delivered
                  /\ tarInputStreams'[i].archive.off
                       <= tarInputStreams[i].archive.off + 1
                  /\ tarInputStreams[i].has_peek
                       => /\ tarInputStreams'[i] = tarInputStreams[i]
                          /\ ret'.val.v = tarInputStreams[i].peek_byte
                  /\ ret'.val.v # NoByte
                       => /\ tarInputStreams'[i].has_peek
                          /\ tarInputStreams'[i].peek_byte = ret'.val.v
          /\ (Sound(i) /\ Returned("TarInputStream::read", i)
                /\ tarInputStreams[i].has_peek /\ ret'.val.v.limit >= 1)
               => /\ ret'.val.v.n >= 1
                  /\ ret'.val.v.buf[1] = tarInputStreams[i].peek_byte
                  /\ ret'.val.v.buf[1] = NextByte(tarInputStreams[i]) ]_vars

\* peek() in mid-payload: "e" after "h" was read, one byte pulled ahead
C19_witness ==
    /\ ret.op = "TarInputStream::peek"
    /\ ret.errs = << >>
    /\ ret.val.v = "e"
    /\ \E i \in LiveInputStreams :
         /\ tarInputStreams[i].archive = [ h |-> "open", off |-> 2, faults |-> 0 ]
         /\ tarInputStreams[i].has_peek
         /\ tarInputStreams[i].bytes_read = 1
         /\ tarInputStreams[i].delivered = << "h" >>

\* C20: under any interleaving of read() and peek() on a stream whose coder
\* does not fail, the bytes read() has returned, joined in order, are a prefix
\* of the payload; the position is the number of bytes delivered and never
\* exceeds the entry size; at the end read() returns 0 and peek() returns no
\* byte, and neither raises.
C20_reads_are_a_prefix ==
    [][ \A i \in 1..Len(tarInputStreams) :
          /\ (tarInputStreams'[i].alive /\ tarInputStreams'[i].archive.h = "open"
                /\ tarInputStreams'[i].archive.faults = 0)
               => /\ tarInputStreams'[i].delivered =
                       SubSeq(tarInputStreams'[i].entry.data, 1,
                              tarInputStreams'[i].bytes_read)
                  /\ tarInputStreams'[i].bytes_read = Len(tarInputStreams'[i].delivered)
                  /\ tarInputStreams'[i].bytes_read <= tarInputStreams'[i].entry_size
          /\ (Sound(i) /\ ret'.op = "TarInputStream::read" /\ ret'.stream = i)
               => (ret'.errs = << >>
                   => ret'.val.v.buf =
                        SubSeq(tarInputStreams[i].entry.data,
                               tarInputStreams[i].bytes_read + 1,
                               tarInputStreams[i].bytes_read + ret'.val.v.n))
          /\ (Sound(i) /\ tarInputStreams[i].bytes_read >= tarInputStreams[i].entry_size
                /\ ret'.op \in { "TarInputStream::read", "TarInputStream::peek" }
                /\ ret'.stream = i)
               => /\ ret'.errs = << >>
                  /\ tarInputStreams'[i] = tarInputStreams[i]
                  /\ ret'.op = "TarInputStream::read" => ret'.val.v.n = 0
                  /\ ret'.op = "TarInputStream::peek" => ret'.val.v = NoByte ]_vars

\* read() at the end of a 5-byte payload that peeks and reads delivered whole
C20_witness ==
    /\ ret.op = "TarInputStream::read"
    /\ ret.errs = << >>
    /\ ret.val.v.n = 0
    /\ ret.val.v.limit >= 1
    /\ \E i \in LiveInputStreams :
         /\ tarInputStreams[i].archive = [ h |-> "open", off |-> 5, faults |-> 0 ]
         /\ tarInputStreams[i].bytes_read = 5
         /\ tarInputStreams[i].delivered = Hello

-----------------------------------------------------------------------------
(* C21: the type in an entry's metadata record.                            *)

\* the type each filetype flag stands for
TypeOfFlag ==
    [ ft \in FileTypes |->
        IF ft = AE_IFREG THEN "file"
        ELSE IF ft = AE_IFDIR THEN "directory"
        ELSE IF ft = AE_IFLNK THEN "symlink"
        ELSE IF ft = AE_IFCHR THEN "chardev"
        ELSE IF ft = AE_IFBLK THEN "blockdev"
        ELSE IF ft = AE_IFIFO THEN "fifo"
        ELSE IF ft = AE_IFSOCK THEN "socket"
        ELSE "unknown" ]

\* the type the record of entry e has to report
ReportedType(e) ==
    IF e.hardlink # NULLSTR /\ Len(e.hardlink) > 0 THEN "hardlink"
    ELSE TypeOfFlag[e.filetype]

\* the metadata records the last entries() or getEntry() returned, each with
\* the entry it describes
Described ==
    IF ret.errs # << >> \/ ret.val = Null THEN { }
    ELSE IF ret.op = "entries"
    THEN { << ret.val.v[k], file.ents[k] >> : k \in 1..Len(file.ents) }
    ELSE IF ret.op = "getEntry"
    THEN { << ret.val.v, file.ents[FirstMatch(file.ents, ret.arg)] >> }
    ELSE { }

\* C21: the type reported in an entry's metadata record is "hardlink"
\* whenever the entry has a non-empty hardlink target, whatever its filetype
\* flag; otherwise the filetype flag alone decides it (file, directory,
\* symlink, chardev, blockdev, fifo, socket, and "unknown" for any other
\* value).
C21_type_of_entry ==
    \A d \in Described : d[1].type = ReportedType(d[2])

\* a regular-file flag with a hardlink target, reported as a hardlink
C21_witness ==
    /\ ret.op = "getEntry"
    /\ file.ents[1].filetype = AE_IFREG
    /\ file.ents[1].hardlink = N_b
    /\ \E d \in Described : d[1].type = "hardlink"

-----------------------------------------------------------------------------
(* C22: compression of a file-backed session.                              *)

\* the suffixes and the method each stands for
SuffixMap ==
    { << << ".", "t", "a", "r", ".", "g", "z" >>, TAR_CM_GZIP >>,
      << << ".", "t", "g", "z" >>, TAR_CM_GZIP >>,
      << << ".", "t", "a", "r", ".", "b", "z", "2" >>, TAR_CM_BZIP2 >>,
      << << ".", "t", "b", "z", "2" >>, TAR_CM_BZIP2 >>,
      << << ".", "t", "b", "z" >>, TAR_CM_BZIP2 >>,
      << << ".", "t", "a", "r", ".", "x", "z" >>, TAR_CM_XZ >>,
      << << ".", "t", "x", "z" >>, TAR_CM_XZ >>,
      << << ".", "t", "a", "r", ".", "z", "s", "t" >>, TAR_CM_ZSTD >>,
      << << ".", "t", "a", "r", ".", "z", "s", "t", "d" >>, TAR_CM_ZSTD >>,
      << << ".", "t", "a", "r", ".", "l", "z", "4" >>, TAR_CM_LZ4 >>,
      << << ".", "t", "a", "r" >>, TAR_CM_NONE >> }

\* the last n characters of a name
LastChars(name, n) == SubSeq(name, Len(name) - n + 1, Len(name))

\* the method the suffix of a name stands for, none when no suffix matches
MethodOfName(name) ==
    LET hits == { m \in SuffixMap : Len(name) >= Len(m[1]) /\ LastChars(name, Len(m[1])) = m[1] }
    IN  IF hits = { } THEN TAR_CM_NONE ELSE (CHOOSE m \in hits : TRUE)[2]

\* C22: a file-backed session constructed with no explicit compression
\* (method < 0) uses the method the case-sensitive suffix of the file name
\* stands for (.tar.gz/.tgz gzip, .tar.bz2/.tbz2/.tbz bzip2, .tar.xz/.txz xz,
\* .tar.zst/.tar.zstd zstd, .tar.lz4 lz4, .tar or anything else none); an
\* explicit method >= 0 is used unchanged whatever the file name.
C22_compression_of_file_session ==
    [][ /\ \A cfg \in DetectConfigs :
             (NewFileWrite(cfg) \/ NewFileAppendAll(cfg))
               => compression_method' =
                    IF cfg[1] = TAR_CM_UNSET THEN MethodOfName(path) ELSE cfg[1]
        /\ NewFileRead => compression_method' = MethodOfName(path) ]_vars

\* "a.tar.zst" with no method given: zstd
C22_witness ==
    /\ path = << "a", ".", "t", "a", "r", ".", "z", "s", "t" >>
    /\ life = "live"
    /\ mode = TAR_MODE_WRITE
    /\ compression_method = TAR_CM_ZSTD
    /\ write_archive.h = "open"

-----------------------------------------------------------------------------
(* C23: add().                                                             *)

\* C23 as stated: add(name, bytes, options) on an open write session writes
\* exactly one regular-file header with size = length of bytes, permission =
\* options.mode or 0644 when absent, and modification time = options.modified
\* or the current time when absent, and then the payload; when the header
\* write fails nothing is written and an error is raised.
C23_add_header ==
    [][ \A name \in AddNames \cup { N_long }, data \in AddData, opts \in AddOptions :
          (checkOpen(TRUE) = "ok" /\ add(name, data, opts))
            => IF ret'.errs = << >>
               THEN /\ Len(Written') = Len(Written) + 1
                    /\ SubSeq(Written', 1, Len(Written)) = Written
                    /\ Written'[Len(Written')].pathname = name
                    /\ Written'[Len(Written')].filetype = AE_IFREG
                    /\ Written'[Len(Written')].size = Len(data)
                    /\ Written'[Len(Written')].data = data
                    /\ Written'[Len(Written')].perm =
                         IF opts.given /\ opts.mode # << >> THEN opts.mode[1] ELSE 420
                    /\ Written'[Len(Written')].mtime =
                         IF opts.given /\ opts.modified # << >>
                         THEN opts.modified[1] ELSE time_now
               ELSE /\ Written' = Written
                    /\ ret'.errs[1].code = "TAR-ERROR" ]_vars

\* add() with modified = the epoch: the header carries the current time
C23_witness ==
    /\ ret.op = "add"
    /\ ret.errs = << >>
    /\ Written # << >>
    /\ Written[Len(Written)].mtime = time_now
    /\ Written[Len(Written)].perm = 384

-----------------------------------------------------------------------------
(* C24: teardown of a session and of an output stream.                     *)

\* the bytes of the backing the write coder emits to
Backing ==
    IF in_memory THEN memory_buffer
    ELSE IF output_stream.set THEN output_stream.data
    ELSE Bytes(file.ents, file.fin)

\* ~QoreTarFile runs in this step
TornDown == life = "live" /\ life' = "dead"

\* ~TarOutputStream runs in this step on stream i, which was not closed
StreamTornDown(i) ==
    /\ i \in LiveOutputStreams
    /\ ~tarOutputStreams[i].closed
    /\ ret'.op = "~TarOutputStream"
    /\ ret'.stream = i

-----------------------------------------------------------------------------
(* C25: sessions share no mutable state.                                   *)

\* a call on session i is this step
ActsOn(i) == sessions'[i] # sessions[i]

\* C25: no mutable state is shared between two sessions: a call on one
\* session never changes the bytes another session (or an input stream
\* opened from it) will consume next, also when two stream-backed read
\* sessions are used alternately on one thread.
C25_sessions_share_nothing ==
    [][ \A i \in Sessions, j \in Sessions :
          (i # j /\ ActsOn(i) /\ sessions[j].life = "live")
             => Unconsumed(j, read_buffer') = Unconsumed(j, read_buffer) ]_vars

\* a session has consumed a byte that its own stream did not deliver at that
\* offset, after the other session fetched a block
C25_witness ==
    \E i \in Sessions, j \in Sessions :
       /\ i # j
       /\ sessions[i].life = "live" /\ sessions[j].life = "live"
       /\ sessions[j].input_stream.pos > 0
       /\ \E k \in 1..Len(sessions[i].consumed) :
            sessions[i].consumed[k] # sessions[i].input_stream.data[k]

-----------------------------------------------------------------------------
(* C26: the order of the steps of an append over an existing file.         *)

\* the append constructor runs in this step over a path that exists
Bootstraps ==
    life = "none" /\ life' = "live" /\ mode' = TAR_MODE_APPEND /\ file.exists

\* the constructor of this step raised one of `msgs`
RaisedOneOf(msgs) == ret'.errs # << >> /\ ret'.errs[1].msg \in msgs

\* C26: on append to an existing path the whole file is read into memory and
\* a read coder opened over that snapshot before the write coder is opened on
\* the path, which truncates the file.  If reading the file or opening the
\* read coder fails, the path is never opened for writing and the file is
\* as it was; whenever the write coder has been opened the snapshot is the
\* whole file as it was; and when the copy of the entries fails the file has
\* been truncated already: it holds no footer and only what the coder has
\* flushed of the entries copied so far.
C26_read_before_truncate ==
    [][ Bootstraps =>
          /\ RaisedOneOf({ "failed to open archive for reading",
                           "failed to read existing archive",
                           "failed to open existing archive" })
                => /\ file' = file
                   /\ write_archive' = NullWriter
          /\ write_archive'.h = "open" => existing_data' = file
          /\ RaisedOneOf({ "failed to copy entry header", "failed to copy entry data",
                           "failed to read entry data" })
                => /\ write_archive'.h = "open"
                   /\ file' # file
                   /\ file'.fin = 0
                   /\ Len(Written') <= Len(file.ents)
                   /\ \A k \in 1..Len(Written') :
                        Written'[k].pathname = file.ents[k].pathname ]_vars

\* the copy failed while it read the payload of the second of two entries:
\* the snapshot holds both and a footer, the path holds no footer
C26_witness ==
    /\ ret.op = "constructor"
    /\ ret.errs # << >>
    /\ ret.errs[1].msg = "failed to read entry data"
    /\ mode = TAR_MODE_APPEND
    /\ write_archive.h = "open"
    /\ Len(existing_data.ents) = 2 /\ existing_data.fin = 1
    /\ file.fin = 0
    /\ file # existing_data

-----------------------------------------------------------------------------
(* C27, C28: failures of the read coder during a walk.                     *)

\* C27: when the read coder reports a failure from next-header while
\* entries, count, hasEntry, getEntry, read, extractTo, extractAll or the
\* copy of the append bootstrap walks the archive, the operation raises an
\* error; it does not return a result made from the entries seen so far.
C27_header_failure_raises ==
    ret.fault.kind = "archive_read_next_header" => ret.errs # << >>

\* count() over an archive of two entries returned 1 without an error:
\* the read coder failed at the second header
C27_witness ==
    /\ ret.op = "count"
    /\ ret.fault = [ kind |-> "archive_read_next_header", at |-> 2 ]
    /\ ret.errs = << >>
    /\ ret.val = Val(1)
    /\ Len(StoredEnts) = 2

\* C28: when the read coder reports a failure while the payload of an entry
\* is being read, read(name), extractTo and extractAll raise an error; none
\* returns success after delivering a truncated payload.
C28_payload_failure_raises ==
    (/\ ret.fault.kind = "archive_read_data"
     /\ ret.op \in { "read", "extractTo", "extractAll" })
        => ret.errs # << >>

\* extractTo returned without an error and wrote nothing of a payload that
\* the read coder failed to deliver
C28_witness ==
    /\ ret.op = "extractTo"
    /\ ret.fault.kind = "archive_read_data"
    /\ ret.errs = << >>
    /\ ret.val = Val(<< >>)
    /\ StoredEnts[ret.fault.at].data # << >>
    /\ entryNameEquals(StoredEnts[ret.fault.at].pathname, ret.arg)

-----------------------------------------------------------------------------
(* C29: the buffer of a memory-backed write session.                       *)

\* the session is a memory-backed write session before and after the step
MemoryWriteStep ==
    /\ life = "live" /\ life' = "live"
    /\ in_memory /\ in_memory'
    /\ mode = TAR_MODE_WRITE /\ mode' = TAR_MODE_WRITE

\* the operations that add to the archive
AddingOps ==
    { "add", "addText", "addFile", "addDirectory", "addSymlink", "addHardlink",
      "openOutputStream" }

\* C29: on a memory-backed write session the buffer only grows, by
\* appending, and only while the write coder is open.  A toData() that finds
\* the write coder open finalizes and releases it, adding one footer, and
\* returns a copy of the whole buffer; a toData() that finds it released
\* changes nothing and returns the same bytes; and once the coder is
\* released add, addText, addFile, addDirectory, addSymlink, addHardlink and
\* openOutputStream fail with TAR-ERROR and leave the buffer as it is.
C29_memory_buffer ==
    [][ MemoryWriteStep =>
          /\ Len(memory_buffer'.ents) >= Len(memory_buffer.ents)
          /\ SubSeq(memory_buffer'.ents, 1, Len(memory_buffer.ents)) = memory_buffer.ents
          /\ memory_buffer'.fin >= memory_buffer.fin
          /\ memory_buffer' # memory_buffer => write_archive.h = "open"
          /\ write_archive.h = "null" => write_archive'.h = "null"
          /\ (ret'.op = "toData" /\ write_archive.h = "open")
                => /\ write_archive' = NullWriter
                   /\ memory_buffer' = Bytes(Written, memory_buffer.fin + 1)
                   /\ ret'.errs = << >>
                   /\ ret'.val = Val(memory_buffer')
          /\ (ret'.op = "toData" /\ write_archive.h = "null")
                => /\ memory_buffer' = memory_buffer
                   /\ ret'.errs = << >>
                   /\ ret'.val = Val(memory_buffer)
          /\ (ret'.op \in AddingOps /\ write_archive.h = "null")
                => /\ ret'.errs # << >>
                   /\ ret'.errs[1].code = "TAR-ERROR"
                   /\ memory_buffer' = memory_buffer
                   /\ tarOutputStreams' = tarOutputStreams ]_vars

\* after two entries and toData(), addSymlink has failed with TAR-ERROR and
\* the buffer still holds the two entries and one footer
C29_witness ==
    /\ life = "live" /\ in_memory /\ mode = TAR_MODE_WRITE /\ ~closed
    /\ write_archive = NullWriter
    /\ ret.op = "addSymlink"
    /\ ret.errs # << >>
    /\ ret.errs[1].code = "TAR-ERROR"
    /\ Len(memory_buffer.ents) = 2
    /\ memory_buffer.fin = 1

-----------------------------------------------------------------------------
(* C30: the compression filter of a write session.                         *)

\* a write-mode constructor runs in this step
ConstructsWriter == life = "none" /\ life' = "live" /\ mode' = TAR_MODE_WRITE

\* the methods and the one filter that goes with each
FilterMap ==
    { << TAR_CM_NONE, "archive_write_add_filter_none" >>,
      << TAR_CM_GZIP, "archive_write_add_filter_gzip" >>,
      << TAR_CM_BZIP2, "archive_write_add_filter_bzip2" >>,
      << TAR_CM_XZ, "archive_write_add_filter_xz" >>,
      << TAR_CM_ZSTD, "archive_write_add_filter_zstd" >>,
      << TAR_CM_LZ4, "archive_write_add_filter_lz4" >> }

Recognised == { p[1] : p \in FilterMap }

Filters == { p[2] : p \in FilterMap }

\* the calls that open a backend
Backends ==
    { "archive_write_open_filename", "memory_write_callback", "stream_write_callback" }

-----------------------------------------------------------------------------
(* C31: an output stream and the write coder its session has released.     *)

\* stream i calls archive_write_header in this step: its close() or its
\* destructor finds the stream not yet closed
WritesHeaderNow(i) ==
    /\ i \in LiveOutputStreams
    /\ ~tarOutputStreams[i].closed
    /\ tarOutputStreams'[i].closed

\* C31: an output stream never writes to a write coder that its session has
\* already finalized and released: whenever a stream's close (or teardown)
\* hands its entry to the coder, the session still holds that coder open,
\* and no such step ends the process.
C31_stream_writes_to_held_coder ==
    [][ \A i \in 1..Len(tarOutputStreams) :
          WritesHeaderNow(i) => (write_archive.h = "open" /\ life' # "crashed") ]_vars

\* a stream was opened, the session was closed, and then the stream's
\* close() ran on the pointer it had kept
C31_witness ==
    /\ closed
    /\ write_archive.h = "null"
    /\ ret.op = "TarOutputStream::close"
    /\ \E i \in 1..Len(tarOutputStreams) :
         /\ ret.stream = i
         /\ tarOutputStreams[i].closed
         /\ tarOutputStreams[i].closed_by = "TarOutputStream::close"
         /\ tarOutputStreams[i].headers = 0

-----------------------------------------------------------------------------
(* C32: an input stream and the read coder its session has released.       *)

\* the last call was read() or peek() on stream i
StreamReadOn(i) ==
    /\ ret'.op \in { "TarInputStream::read", "TarInputStream::peek" }
    /\ ret'.stream = i

\* what read() returned is the stretch of the entry's payload that follows
\* the bytes delivered so far; what peek() returned is the next byte of it,
\* or no byte
DeliversEntryBytes(i) ==
    LET s == tarInputStreams[i]
    IN  IF ret'.op = "TarInputStream::read"
        THEN ret'.val.v.buf = SubSeq(s.entry.data, Len(s.delivered) + 1,
                                     Len(s.delivered) + ret'.val.v.n)
        ELSE ret'.val.v \in { NextByte(s), NoByte }

\* C32: an input stream never reads from a read coder or entry that its
\* session has released or repositioned: on a stream whose coder has
\* reported no read failure, each read() or peek(), whatever session
\* operations came between, either delivers bytes of the entry the stream
\* was opened on or fails, and none of them ends the process.
C32_stream_reads_its_entry ==
    [][ /\ life = "live" => life' # "crashed"
        /\ \A i \in 1..Len(tarInputStreams) :
             (StreamReadOn(i) /\ tarInputStreams[i].archive.faults = 0)
                => (ret'.errs # << >> \/ DeliversEntryBytes(i)) ]_vars

\* a stream was opened, a later session operation released the coder, and
\* read() on the stream returned bytes all the same
C32_witness ==
    /\ ret.op = "TarInputStream::read"
    /\ ret.errs = << >>
    /\ ret.val.v.n > 0
    /\ \E i \in LiveInputStreams :
         /\ ret.stream = i
         /\ tarInputStreams[i].archive.h = "freed"
         /\ tarInputStreams[i].archive.faults = 0

-----------------------------------------------------------------------------
(* C33: output streams and add() interleaved on one write session.         *)

\* the coder was given this entry whole: its header declares as many bytes
\* as follow it
Whole(e) == e.size = Len(e.data)

\* the step is a call on the session's write side or on one of its streams
WriteSideStep ==
    ret'.op \in { "openOutputStream", "add", "TarOutputStream::write",
                  "TarOutputStream::close", "~TarOutputStream" }

-----------------------------------------------------------------------------
(* C34: extractAll after its first error.                                  *)

\* C34: after extractAll has raised any error (security, header-write or
\* payload-write) it hands no further entry to the disk sink: the entry at
\* which the first error was raised is the last header the walk read and
\* the last one the disk sink was given, and one error is raised in all.
C34_first_failure_ends_walk ==
    (ret.op = "extractAll" /\ ret.disk.raised_at > 0)
        => /\ Len(ret.disk.seen) = ret.disk.raised_at
           /\ Len(ret.disk.log) <= ret.disk.raised_at
           /\ Len(ret.errs) = 1

\* the payload of the first entry could not be written, the error was
\* raised, and the second entry was extracted all the same
C34_witness ==
    /\ ret.op = "extractAll"
    /\ ret.disk.raised_at = 1
    /\ ret.errs[1].msg = "failed to write data"
    /\ Len(ret.disk.seen) = 2
    /\ Len(ret.disk.log) = 2
    /\ Rooted(ret.disk.seen[2]).pathname \in ret.disk.files

-----------------------------------------------------------------------------
(* C35: a read() that fails on an input stream.                            *)

\* 1 when the lookahead slot of stream s holds a byte
Lookahead(s) == IF s.has_peek THEN 1 ELSE 0

\* the last call was read() on stream i and raised TAR-READ-ERROR
ReadFailedOn(i) ==
    /\ ret'.op = "TarInputStream::read"
    /\ ret'.stream = i
    /\ ret'.errs # << >>
    /\ ret'.errs[1].code = "TAR-READ-ERROR"

\* C35: a read() on an input stream that fails with TAR-READ-ERROR leaves
\* the adapter as it was (same position, same lookahead slot), so a byte
\* obtained by an earlier peek() is not lost: on a coder the session holds,
\* the position plus the occupied lookahead slot always equals the number
\* of payload bytes pulled from the coder.
C35_failed_read_keeps_state ==
    [][ \A i \in 1..Len(tarInputStreams) :
          /\ ReadFailedOn(i)
               => /\ tarInputStreams'[i].bytes_read = tarInputStreams[i].bytes_read
                  /\ tarInputStreams'[i].has_peek = tarInputStreams[i].has_peek
                  /\ tarInputStreams'[i].peek_byte = tarInputStreams[i].peek_byte
          /\ tarInputStreams'[i].archive.h = "open"
               => tarInputStreams'[i].bytes_read + Lookahead(tarInputStreams'[i])
                    = tarInputStreams'[i].archive.off ]_vars

\* peek() pulled the first byte, then read() with a limit of two or more
\* failed under the coder: the slot is empty, the position is still 0 and
\* the coder is one byte ahead
C35_witness ==
    /\ ret.op = "TarInputStream::read"
    /\ ret.errs # << >>
    /\ ret.errs[1].code = "TAR-READ-ERROR"
    /\ \E i \in LiveInputStreams :
         /\ ret.stream = i
         /\ tarInputStreams[i].archive.h = "open"
         /\ tarInputStreams[i].archive.off = 1
         /\ tarInputStreams[i].bytes_read = 0
         /\ ~tarInputStreams[i].has_peek
         /\ tarInputStreams[i].peek_byte # NoByte

-----------------------------------------------------------------------------
(* C36: the lookahead slot and the end of the entry.                       *)

\* the coder of stream s is the one the session holds: it delivers the
\* payload of the entry and no more than its declared size
DeliversEntry(s) == s.archive.h = "open" /\ Len(s.entry.data) <= s.entry_size

\* C36: in every reachable state of a read adapter whose coder delivers at
\* most the entry's declared size, an occupied lookahead slot implies
\* position < entry size, and position <= entry size always holds; hence
\* read() with room for a byte never reports the end of the entry while a
\* peeked byte is still undelivered.
C36_slot_before_end ==
    [][ \A i \in 1..Len(tarInputStreams') :
          DeliversEntry(tarInputStreams'[i])
            => /\ tarInputStreams'[i].bytes_read <= tarInputStreams'[i].entry_size
               /\ tarInputStreams'[i].has_peek
                    => tarInputStreams'[i].bytes_read < tarInputStreams'[i].entry_size
               /\ ( /\ i <= Len(tarInputStreams)
                    /\ Returned("TarInputStream::read", i)
                    /\ ret'.val.v.limit >= 1
                    /\ ret'.val.v.n = 0 )
                    => ~tarInputStreams[i].has_peek ]_vars

\* peek() filled the slot with the last byte of the payload, one short of
\* the end
C36_witness ==
    /\ ret.op = "TarInputStream::peek"
    /\ ret.errs = << >>
    /\ \E i \in LiveInputStreams :
         /\ ret.stream = i
         /\ DeliversEntry(tarInputStreams[i])
         /\ tarInputStreams[i].has_peek
         /\ tarInputStreams[i].entry_size = 5
         /\ tarInputStreams[i].bytes_read = 4
         /\ tarInputStreams[i].archive.off = 5

-----------------------------------------------------------------------------
(* C37: the closed flag and the coder handles.                             *)

\* C37: in every state of a session the closed flag being set implies that
\* both the read coder handle and the write coder handle are null; the flag
\* stays set for as long as the session object lives (a constructor makes
\* a new object), and no operation after close() creates a coder again.
C37_closed_holds_no_coder ==
    [][ /\ (closed /\ ret'.op # "constructor") => closed'
        /\ closed' => (read_archive' = "null" /\ write_archive'.h = "null") ]_vars

\* a memory-backed session was closed and a read operation was then called
\* on it: the call was refused and no coder was opened
C37_witness ==
    /\ closed
    /\ in_memory
    /\ life = "live"
    /\ ret.op \in ReadOps
    /\ ret.errs # << >>
    /\ ret.errs[1].msg = "archive is closed"
    /\ read_archive = "null" /\ write_archive.h = "null"

-----------------------------------------------------------------------------
(* C38: the query operations of one read session agree.                    *)

\* the call failed with "entry not found"
EntryNotFound(r) == r.errs # << >> /\ r.errs[1].msg = "entry not found"

\* the call raised nothing, or nothing but "entry not found"
Answered(r) == r.errs = << >> \/ EntryNotFound(r)

\* the index of the first record of a list returned by entries() whose name
\* equals name, 0 if there is none
FirstRecord(list, name) ==
    IF \E k \in 1..Len(list) : entryNameEquals(list[k].name, name)
    THEN CHOOSE k \in 1..Len(list) :
            /\ entryNameEquals(list[k].name, name)
            /\ \A j \in 1..(k - 1) : ~entryNameEquals(list[j].name, name)
    ELSE 0

\* the results x and y of two calls made one after the other agree
Agree(x, y) ==
    /\ (x.op = "count" /\ y.op = "entries") => x.val.v = Len(y.val.v)
    /\ (x.op = "hasEntry" /\ y.op = "getEntry" /\ x.arg = y.arg)
          => (x.val.v <=> ~y.val.isnull)
    /\ (x.op = "hasEntry" /\ y.op = "read" /\ x.arg = y.arg)
          => (x.val.v <=> ~EntryNotFound(y))
    /\ (x.op = "getEntry" /\ y.op = "read" /\ x.arg = y.arg)
          => (~x.val.isnull <=> ~EntryNotFound(y))
    /\ (x.op = "getEntry" /\ y.op = "entries")
          => IF FirstRecord(y.val.v, x.arg) = 0 THEN x.val.isnull
             ELSE x.val = Val(y.val.v[FirstRecord(y.val.v, x.arg)])

\* two queries in a row on one open read session, each answered
TwoQueries ==
    /\ life = "live" /\ life' = "live" /\ mode = TAR_MODE_READ
    /\ checkOpen(FALSE) = "ok" /\ origin' = origin
    /\ ret.op \in { "entries", "count", "hasEntry", "getEntry", "read" }
    /\ ret'.op \in { "entries", "count", "hasEntry", "getEntry", "read" }
    /\ Answered(ret) /\ Answered(ret')

\* C38: on one open read session with unchanged archive content the query
\* operations agree with each other: count() equals the length of
\* entries(); hasEntry(name) is true exactly when getEntry(name) returns a
\* record, exactly when read(name) does not fail with "entry not found";
\* and getEntry(name) equals the first record of entries() whose name
\* equals name.
C38_queries_agree ==
    [][ TwoQueries => (Agree(ret, ret') /\ Agree(ret', ret)) ]_vars

\* count() returned 2 on a stream-backed read session and entries(), called
\* next, returned an empty list
C38_witness ==
    /\ life = "live" /\ mode = TAR_MODE_READ /\ checkOpen(FALSE) = "ok"
    /\ input_stream.set
    /\ Len(input_stream.data.ents) = 2
    /\ ret.op = "entries" /\ ret.errs = << >>
    /\ ret.val.v = << >>

-----------------------------------------------------------------------------
(* C39: the convenience flags of a metadata record against its type.       *)

\* the flags of record info that are true
FlagsSet(info) ==
    { f \in { "hardlink", "symlink", "directory" } :
        \/ f = "hardlink" /\ info.is_hardlink
        \/ f = "symlink" /\ info.is_symlink
        \/ f = "directory" /\ info.is_directory }

\* C39: in every metadata record produced by entries() or getEntry() the
\* convenience flags agree with the type field: is_hardlink is true exactly
\* when type is "hardlink", is_symlink exactly when type is "symlink",
\* is_directory exactly when type is "directory", so at most one of the
\* three flags is true.
C39_flags_agree_with_type ==
    \A d \in Described :
        /\ d[1].is_hardlink <=> d[1].type = "hardlink"
        /\ d[1].is_symlink <=> d[1].type = "symlink"
        /\ d[1].is_directory <=> d[1].type = "directory"
        /\ Cardinality(FlagsSet(d[1])) <= 1

\* entries() described a directory entry that carries a hardlink target
C39_witness ==
    /\ ret.op = "entries"
    /\ file.ents[1].filetype = AE_IFDIR
    /\ file.ents[1].hardlink = N_b
    /\ \E d \in Described : d[1].type = "hardlink" /\ d[1].is_directory

-----------------------------------------------------------------------------
(* C40: the metadata an input stream reports against the session's.        *)

\* the last call was getEntryInfo on stream i and returned a record
InfoReturnedOn(i) ==
    /\ ret.op = "TarInputStream::getEntryInfo"
    /\ ret.stream = i
    /\ ret.errs = << >>
    /\ ret.val # Null

\* the record getEntry returns for the entry stream i was opened on
SessionInfoOf(i) == createEntryInfo(tarInputStreams[i].entry)

\* C40: for every entry, the metadata reported by an input stream opened on
\* it (getEntryInfo) gives the same name, size, mode and type as the
\* session's getEntry for the same entry, including hardlink precedence and
\* the device, fifo and socket types.
C40_stream_info_matches_session ==
    \A i \in 1..Len(tarInputStreams) :
        InfoReturnedOn(i) =>
            /\ ret.val.v.name = SessionInfoOf(i).name
            /\ ret.val.v.size = SessionInfoOf(i).size
            /\ ret.val.v.mode = SessionInfoOf(i).mode
            /\ ret.val.v.type = SessionInfoOf(i).type

\* getEntryInfo on a stream whose coder is still held, opened on a fifo
\* entry, reported "unknown" where getEntry reports "fifo"
C40_witness ==
    \E i \in 1..Len(tarInputStreams) :
        /\ InfoReturnedOn(i)
        /\ tarInputStreams[i].archive.h = "open"
        /\ tarInputStreams[i].entry.filetype = AE_IFIFO
        /\ tarInputStreams[i].entry.hardlink = NULLSTR
        /\ ret.val.v.type = "unknown"
        /\ SessionInfoOf(i).type = "fifo"

====
